---- MODULE Spec2Model ----
(***************************************************************************)
(* pgdrive: the block-incremental generation engine (BIG), a randomized    *)
(* depth-first search with bounded retries and backtracking that places    *)
(* road blocks one after another (component/algorithm/BIG.py).             *)
(*                                                                         *)
(* The engine is modelled as a record (the fields of a BIG object plus the *)
(* position of its caller), its methods as operators on that record, and   *)
(* every call of big_helper_func as one step.  The outcome of a block's    *)
(* construction (the collision test of the physics world) is the           *)
(* environment's choice.                                                   *)
(***************************************************************************)
EXTENDS Integers, Sequences, FiniteSets, TLC

VARIABLES
    big,     \* the BIG object of the run under study
    nfail,   \* number of failed constructions the world has reported so far
    big2,    \* a second, independent BIG object (used by SpecDet only)
    oracle,  \* the collision oracle as far as it has been asked (SpecDet only)
    lane,    \* a StraightLane object and the latest call made on it (SpecLane)
    park,    \* the parking-lot environment: its spawn manager and agents (SpecPark)
    veh,     \* an environment, one vehicle of it and what the environment
             \* computed for the vehicle in this step (SpecEnv)
    asset    \* the class AssetLoader and the engines (SpecAsset)

vars == <<big, nfail, big2, oracle, lane, park, veh, asset>>

\* the variables of the generation engine, and the others
bigvars == <<big, nfail, big2, oracle>>
aux == <<lane, park, veh, asset>>

-----------------------------------------------------------------------------
(* Bounds of the model *)

\* largest target block count given to generate(BLOCK_NUM, n)
MaxN == 3
\* longest type sequence (besides the fixed scenario "CrTRXOS")
MaxSeqLen == 2
\* largest explicit random seed
MaxSeed == 1
\* number of different values the operating system's entropy may give minus 1
MaxEntropy == 1
\* number of failed constructions the world may report in one run
MaxFail == 4
\* modulus of the abstract pseudo-random generator
RngMod == 16

-----------------------------------------------------------------------------
(* Python values *)

None == {}
Some(x) == {x}
Get(o) == CHOOSE x \in o : TRUE

\* the last element of a list, blocks[-1]
Last(s) == s[Len(s)]
\* list.pop() applied to a non-empty list: the list that is left
Pop(s) == SubSeq(s, 1, Len(s) - 1)

\* a parameter value of generate(): an int, a str or a value of another type
\* (a float, a list, ...)
IntParam(n) == [type |-> "int", num |-> n, str |-> <<>>]
StrParam(s) == [type |-> "str", num |-> 0, str |-> s]
OtherParam == [type |-> "other", num |-> 0, str |-> <<>>]
NoParam == [type |-> "none", num |-> 0, str |-> <<>>]

-----------------------------------------------------------------------------
(* class NextStep and class BigGenerateMethod *)

NextStep_back == 0
NextStep_forward == 1
NextStep_search_sibling == 3
NextStep_destruct_current == 4

BLOCK_SEQUENCE == "block_sequence"
BLOCK_NUM == "block_num"
SINGLE_BLOCK == "single_block"

MAX_TRIAL == 2

-----------------------------------------------------------------------------
(* The seeded random source (numpy RandomState behind get_np_random).      *)
(* A generator is its state s and the number of draws made from it.  A     *)
(* draw returns the current state as raw value and advances the state by a *)
(* linear congruence.                                                      *)

get_np_random(random_seed, entropy) ==
    [s |-> (IF random_seed = None THEN entropy ELSE Get(random_seed)) % RngMod,
     draws |-> 0]

Advance(rng) == [s |-> (5 * rng.s + 3) % RngMod, draws |-> rng.draws + 1]

\* np_random.choice(list): one draw, the element at the drawn position
choice(rng, list) == [val |-> list[(rng.s % Len(list)) + 1], rng |-> Advance(rng)]

\* np_random.randint(low, high): one draw, a value in low .. high - 1
randint(rng, low, high) == [val |-> low + (rng.s % (high - low)), rng |-> Advance(rng)]

SubSeedHigh == 10000

-----------------------------------------------------------------------------
(* The block catalog (PGBlockConfig) and the blocks (PGBlock, FirstPGBlock) *)

FirstPGBlock_ID == ">"

\* PGBlockConfig.all_blocks(): the registered block types, by their ID
all_blocks == <<"C", "S", "X", "O", "T", "r", "R">>

\* PGBlockConfig.get_block(type_id): the block type registered under type_id
get_block(type_id) ==
    CHOOSE t \in {all_blocks[i] : i \in 1..Len(all_blocks)} : t = type_id

\* number of sockets a block of a type exposes
SOCKET_NUM(type) ==
    CASE type \in {"X", "O"} -> 3
      [] type = "T" -> 2
      [] OTHER -> 1

\* block.get_socket_indices()
get_socket_indices(block) == [i \in 1..SOCKET_NUM(block.ID) |-> i - 1]

\* PGBlock(index, pre_block_socket, network, random_seed): a block that has
\* not been constructed yet.  attached: its bodies are in the world (it was
\* constructed and not destructed since); ok: the result of its latest
\* construction.
PGBlock(type, index, parent, socket, seed) ==
    [ID |-> type, index |-> index, parent |-> parent, socket |-> socket, seed |-> seed,
     number_of_sample_trial |-> 0, attached |-> FALSE, ok |-> FALSE]

\* FirstPGBlock(...): the entry block, built into the world by its constructor
FirstPGBlock ==
    [ID |-> FirstPGBlock_ID, index |-> 0, parent |-> 0, socket |-> 0, seed |-> 0,
     number_of_sample_trial |-> 0, attached |-> TRUE, ok |-> TRUE]

\* block.construct_block(...): one trial; the block's bodies are put into the
\* world and the result of the collision test is returned
construct_block(block, success) ==
    [block EXCEPT !.number_of_sample_trial = @ + 1, !.attached = TRUE, !.ok = success]

\* block.destruct_block(...)
destruct_block(block) == [block EXCEPT !.attached = FALSE]

-----------------------------------------------------------------------------
(* class BIG *)

\* what a state-machine step records of a construct or destruct call: the
\* position of the block on the stack and the block as it was before the call
Call(op, pos, block, result) ==
    [op |-> op, pos |-> pos, trial |-> block.number_of_sample_trial,
     attached |-> block.attached, ok |-> block.ok, result |-> result]

\* BIG.__init__ with a random source that is not seeded from random_seed
BIG_unseeded(random_seed, entropy) ==
    [_block_sequence |-> None,
     random_seed |-> random_seed,
     np_random |-> get_np_random(None, entropy),
     block_num |-> None,
     blocks |-> <<FirstPGBlock>>,
     next_step |-> NextStep_forward,
     pc |-> "new", err |-> "",
     entry |-> "", method |-> "", parameter |-> NoParam,
     steps |-> 0, calls |-> <<>>]

\* BIG.__init__
BIG(random_seed, entropy) ==
    [_block_sequence |-> None,
     random_seed |-> random_seed,
     np_random |-> get_np_random(random_seed, entropy),
     block_num |-> None,
     blocks |-> <<FirstPGBlock>>,
     next_step |-> NextStep_forward,
     \* the caller: "new", "loop", "returned", "raised"; the exception raised
     pc |-> "new", err |-> "",
     \* observation: how the run was started, the number of steps made, and
     \* the construct / destruct calls of the latest step
     entry |-> "", method |-> "", parameter |-> NoParam,
     steps |-> 0, calls |-> <<>>]

Raise(e, kind) == [e EXCEPT !.pc = "raised", !.err = kind]

\* BIG.destruct(block), block being the one at position pos of the stack
destruct(e, pos) ==
    [e EXCEPT !.blocks[pos] = destruct_block(@),
              !.calls = Append(@, Call("destruct", pos, e.blocks[pos], TRUE))]

\* BIG.construct(block), block being the one at position pos of the stack
construct(e, pos, success) ==
    [e EXCEPT !.blocks[pos] = construct_block(@, success),
              !.calls = Append(@, Call("construct", pos, e.blocks[pos], success))]

\* BIG.sample_block drawing the type at random even when a sequence is given
sample_block_random_type(e) ==
    LET n == Len(e.blocks)
        t == choice(e.np_random, all_blocks)
        socket == choice(t.rng, get_socket_indices(Last(e.blocks)))
        seed == randint(socket.rng, 0, SubSeedHigh)
    IN  [err |-> "",
         block |-> PGBlock(t.val, n, Last(e.blocks).index, socket.val, seed.val),
         rng |-> seed.rng]

\* BIG.sample_block attaching every new block to the entry block
sample_block_from_entry(e) ==
    LET n == Len(e.blocks)
        bad == e._block_sequence # None /\ n >= Len(Get(e._block_sequence))
        t == IF e._block_sequence = None
             THEN choice(e.np_random, all_blocks)
             ELSE [val |-> IF bad THEN "" ELSE get_block(Get(e._block_sequence)[n + 1]),
                   rng |-> e.np_random]
        socket == choice(t.rng, get_socket_indices(e.blocks[1]))
        seed == randint(socket.rng, 0, SubSeedHigh)
    IN  IF bad
        THEN [err |-> "IndexError", block |-> FirstPGBlock, rng |-> e.np_random]
        ELSE [err |-> "",
              block |-> PGBlock(t.val, n, e.blocks[1].index, socket.val, seed.val),
              rng |-> seed.rng]

\* BIG.sample_block: the new block, the random source after its draws, and
\* the exception raised instead ("" when none)
sample_block(e) ==
    LET n == Len(e.blocks)
        bad == e._block_sequence # None /\ n >= Len(Get(e._block_sequence))
        t == IF e._block_sequence = None
             THEN choice(e.np_random, all_blocks)
             ELSE [val |-> IF bad THEN "" ELSE get_block(Get(e._block_sequence)[n + 1]),
                   rng |-> e.np_random]
        socket == choice(t.rng, get_socket_indices(Last(e.blocks)))
        seed == randint(socket.rng, 0, SubSeedHigh)
    IN  IF bad
        THEN [err |-> "IndexError", block |-> FirstPGBlock, rng |-> e.np_random]
        ELSE [err |-> "",
              block |-> PGBlock(t.val, n, Last(e.blocks).index, socket.val, seed.val),
              rng |-> seed.rng]

\* BIG._forward going on whatever the construction reported
_forward_ignore_failure(e, success) ==
    LET s == sample_block(e)
        e1 == [e EXCEPT !.np_random = s.rng, !.blocks = Append(@, s.block)]
        e2 == construct(e1, Len(e1.blocks), success)
    IN  IF s.err # ""
        THEN Raise(e, s.err)
        ELSE [e2 EXCEPT !.next_step = NextStep_forward]

\* BIG._forward
_forward(e, success) ==
    LET s == sample_block(e)
        e1 == [e EXCEPT !.np_random = s.rng, !.blocks = Append(@, s.block)]
        e2 == construct(e1, Len(e1.blocks), success)
    IN  IF s.err # ""
        THEN Raise(e, s.err)
        ELSE [e2 EXCEPT !.next_step =
                 IF success THEN NextStep_forward ELSE NextStep_destruct_current]

\* BIG._go_back destructing the block it pops instead of the one below it
_go_back_destruct_popped(e) ==
    LET e1 == destruct(e, Len(e.blocks))
        e2 == [e1 EXCEPT !.blocks = Pop(@)]
    IN  IF e2.blocks = <<>>
        THEN Raise(e2, "IndexError")
        ELSE [e2 EXCEPT !.next_step = NextStep_search_sibling]

\* BIG._go_back: blocks[-1] of the list left empty by pop() raises IndexError
_go_back(e) ==
    LET e1 == [e EXCEPT !.blocks = Pop(@)]
    IN  IF e1.blocks = <<>>
        THEN Raise(e1, "IndexError")
        ELSE [destruct(e1, Len(e1.blocks)) EXCEPT !.next_step = NextStep_search_sibling]

\* BIG._search_sibling with the trial test off by one
_search_sibling_retry(e, success) ==
    LET block == Last(e.blocks)
    IN  IF block.number_of_sample_trial <= MAX_TRIAL
        THEN [construct(e, Len(e.blocks), success) EXCEPT !.next_step =
                 IF success THEN NextStep_forward ELSE NextStep_destruct_current]
        ELSE [e EXCEPT !.next_step = NextStep_back]

\* BIG._search_sibling
_search_sibling(e, success) ==
    LET block == Last(e.blocks)
    IN  IF block.number_of_sample_trial < MAX_TRIAL
        THEN [construct(e, Len(e.blocks), success) EXCEPT !.next_step =
                 IF success THEN NextStep_forward ELSE NextStep_destruct_current]
        ELSE [e EXCEPT !.next_step = NextStep_back]

\* BIG._destruct_current giving the position up at once
_destruct_current_give_up(e) ==
    [destruct(e, Len(e.blocks)) EXCEPT !.next_step = NextStep_back]

\* BIG._destruct_current
_destruct_current(e) ==
    LET block == Last(e.blocks)
    IN  [destruct(e, Len(e.blocks)) EXCEPT !.next_step =
            IF block.number_of_sample_trial < MAX_TRIAL
            THEN NextStep_search_sibling ELSE NextStep_back]

\* the first test of big_helper_func asking for one block more than the target
Finished_strict(e) ==
    e.block_num # None /\ Len(e.blocks) > Get(e.block_num)
    /\ e.next_step = NextStep_forward

\* the first test of big_helper_func: the target is reached
Finished(e) ==
    e.block_num # None /\ Len(e.blocks) >= Get(e.block_num)
    /\ e.next_step = NextStep_forward

\* BIG.big_helper_func: the engine after the call and the value returned.
\* Comparing len(blocks) with a block_num that is still None raises TypeError.
big_helper_func(e, success) ==
    LET e0 == [e EXCEPT !.calls = <<>>, !.steps = @ + 1]
    IN  IF e.block_num = None THEN [e |-> Raise(e0, "TypeError"), ret |-> FALSE]
        ELSE IF Finished(e) THEN [e |-> [e EXCEPT !.calls = <<>>], ret |-> TRUE]
        ELSE [ret |-> FALSE,
              e |-> CASE e.next_step = NextStep_forward -> _forward(e0, success)
                      [] e.next_step = NextStep_destruct_current -> _destruct_current(e0)
                      [] e.next_step = NextStep_search_sibling -> _search_sibling(e0, success)
                      [] e.next_step = NextStep_back -> _go_back(e0)]

\* whether a call of big_helper_func on e asks the world for a construction
Constructs(e) ==
    /\ e.block_num # None /\ ~Finished(e)
    /\ \/ e.next_step = NextStep_forward
       \/ /\ e.next_step = NextStep_search_sibling
          /\ Last(e.blocks).number_of_sample_trial < MAX_TRIAL

\* BIG.generate forgetting to count the entry block
generate_no_entry(e, method, parameter) ==
    LET e0 == [e EXCEPT !.entry = "generate", !.method = method,
                        !.parameter = parameter, !.pc = "loop"]
    IN  CASE method = BLOCK_NUM ->
               IF parameter.type = "int"
               THEN [e0 EXCEPT !.block_num = Some(parameter.num)]
               ELSE Raise(e0, "AssertionError")
          [] method = BLOCK_SEQUENCE ->
               IF parameter.type = "str"
               THEN [e0 EXCEPT !.block_num = Some(Len(parameter.str)),
                               !._block_sequence = Some(<<FirstPGBlock_ID>> \o parameter.str)]
               ELSE Raise(e0, "AssertionError")
          [] OTHER -> e0

\* BIG.generate without the assertion on a sequence parameter's type (the
\* parameter being, say, an empty list)
generate_unchecked(e, method, parameter) ==
    LET e0 == [e EXCEPT !.entry = "generate", !.method = method,
                        !.parameter = parameter, !.pc = "loop"]
    IN  CASE method = BLOCK_NUM ->
               IF parameter.type = "int"
               THEN [e0 EXCEPT !.block_num = Some(parameter.num + 1)]
               ELSE Raise(e0, "AssertionError")
          [] method = BLOCK_SEQUENCE ->
               [e0 EXCEPT !.block_num = Some(Len(parameter.str) + 1),
                          !._block_sequence = Some(<<FirstPGBlock_ID>> \o parameter.str)]
          [] OTHER -> e0

\* BIG.generate taking every other method for BLOCK_NUM
generate_other_as_block_num(e, method, parameter) ==
    LET e0 == [e EXCEPT !.entry = "generate", !.method = method,
                        !.parameter = parameter, !.pc = "loop"]
    IN  CASE method = BLOCK_SEQUENCE ->
               IF parameter.type = "str"
               THEN [e0 EXCEPT !.block_num = Some(Len(parameter.str) + 1),
                               !._block_sequence = Some(<<FirstPGBlock_ID>> \o parameter.str)]
               ELSE Raise(e0, "AssertionError")
          [] OTHER ->
               IF parameter.type = "int"
               THEN [e0 EXCEPT !.block_num = Some(parameter.num + 1)]
               ELSE Raise(e0, "AssertionError")

\* BIG.generate, up to its loop: the parameter is checked and the target set
generate(e, method, parameter) ==
    LET e0 == [e EXCEPT !.entry = "generate", !.method = method,
                        !.parameter = parameter, !.pc = "loop"]
    IN  CASE method = BLOCK_NUM ->
               IF parameter.type = "int"
               THEN [e0 EXCEPT !.block_num = Some(parameter.num + 1)]
               ELSE Raise(e0, "AssertionError")
          [] method = BLOCK_SEQUENCE ->
               IF parameter.type = "str"
               THEN [e0 EXCEPT !.block_num = Some(Len(parameter.str) + 1),
                               !._block_sequence = Some(<<FirstPGBlock_ID>> \o parameter.str)]
               ELSE Raise(e0, "AssertionError")
          [] OTHER -> e0

\* one turn of a loop that does not look at what big_helper_func returns
loop_no_break(e, success) ==
    big_helper_func(e, success).e

\* one turn of the loop of generate (or of the frame loop of vis_big)
loop(e, success) ==
    LET r == big_helper_func(e, success)
    IN  IF r.ret THEN [r.e EXCEPT !.pc = "returned"] ELSE r.e

\* tests/vis_block/vis_no_render.py: the target and the sequence are assigned
\* directly and the engine is then stepped by big_helper_func
CrTRXOS == <<"C", "r", "T", "R", "X", "O", "S">>

vis_no_render(e) ==
    [e EXCEPT !.block_num = Some(Len(CrTRXOS)), !._block_sequence = Some(CrTRXOS),
              !.entry = "vis_no_render", !.pc = "loop"]

-----------------------------------------------------------------------------
(* Exact arithmetic for the lane geometry.                                 *)
(* A float is modelled by a fraction <<n, d>> in lowest terms with d > 0;   *)
(* <<0, 0>> is nan, the result of numpy's division by zero.  The lanes of   *)
(* the model are those whose length is a whole number, so that no value is  *)
(* rounded.                                                                 *)

Abs(n) == IF n < 0 THEN -n ELSE n

RECURSIVE GCD(_, _)
GCD(a, b) == IF b = 0 THEN a ELSE GCD(b, a % b)

nan == <<0, 0>>

Rat(n, d) ==
    IF d = 0 THEN nan
    ELSE LET g == GCD(Abs(n), Abs(d))
             sgn == IF d < 0 THEN -1 ELSE 1
         IN  <<(sgn * n) \div g, (sgn * d) \div g>>

R(i) == <<i, 1>>
RAdd(a, b) == Rat(a[1] * b[2] + b[1] * a[2], a[2] * b[2])
RSub(a, b) == Rat(a[1] * b[2] - b[1] * a[2], a[2] * b[2])
RMul(a, b) == Rat(a[1] * b[1], a[2] * b[2])
RNeg(a) == Rat(-a[1], a[2])
\* a / b; x / 0 is nan (the model only divides a zero vector by zero)
RDiv(a, b) == Rat(a[1] * b[2], a[2] * b[1])

\* math.sqrt of a whole number that is a square
sqrt(n) == CHOOSE r \in 0..n : r * r = n

\* pgdrive.utils.math_utils.norm
norm(x, y) == R(sqrt(x[1] * x[1] + y[1] * y[1]))

\* math.atan2(y, x): the angle, named by the ray from the origin through
\* (x, y) in lowest terms; atan2(0, 0) is 0, the angle of (1, 0)
atan2(y, x) ==
    IF x[1] = 0 /\ y[1] = 0 THEN <<1, 0>>
    ELSE LET g == GCD(Abs(x[1]), Abs(y[1])) IN <<x[1] \div g, y[1] \div g>>

-----------------------------------------------------------------------------
(* class StraightLane (component/lane/straight_lane.py)                    *)

\* a value given as start or end: a numpy array or a plain sequence (list,
\* tuple) of two whole numbers
Vec(kind, x, y) == [kind |-> kind, x |-> R(x), y |-> R(y)]
\* np.array(v)
np_array(v) == [v EXCEPT !.kind = "ndarray"]
\* a - b raises TypeError for two plain sequences; with a numpy array on
\* either side it is the difference of the components
CanSubtract(a, b) == a.kind = "ndarray" \/ b.kind = "ndarray"

\* AbstractLane.__init__: sets none of the fields of a StraightLane
AbstractLane__init__(self) == self

\* lines 41-44 and 48-51: the fields derived from start and end
Derived(self) ==
    LET dx == RSub(self.end.x, self.start.x)
        dy == RSub(self.end.y, self.start.y)
        length == norm(dx, dy)
        direction == <<RDiv(dx, length), RDiv(dy, length)>>
    IN  [self EXCEPT !.length = length,
                     !.heading = atan2(dy, dx),
                     !.direction = direction,
                     !.direction_lateral = <<RNeg(direction[2]), direction[1]>>]

\* StraightLane.__init__
StraightLane(start, end, attr) ==
    Derived([start |-> np_array(start), end |-> np_array(end),
             width |-> attr.width, line_types |-> attr.line_types,
             forbidden |-> attr.forbidden, priority |-> attr.priority,
             speed_limit |-> attr.speed_limit,
             length |-> R(0), heading |-> <<1, 0>>,
             direction |-> <<nan, nan>>, direction_lateral |-> <<nan, nan>>])

\* StraightLane.update_properties: the lane afterwards and the exception
\* raised ("" when none)
update_properties(self) ==
    IF CanSubtract(self.end, self.start)
    THEN [self |-> Derived(AbstractLane__init__(self)), err |-> ""]
    ELSE [self |-> AbstractLane__init__(self), err |-> "TypeError"]

\* StraightLane.reset_start_end running the constructor again, with the
\* defaults of its optional arguments
reset_start_end_as_new(self, start, end) ==
    [self |-> Derived([self EXCEPT !.start = np_array(start), !.end = np_array(end),
                                   !.width = 4, !.line_types = <<"broken", "broken">>,
                                   !.forbidden = FALSE, !.priority = 0,
                                   !.speed_limit = 1000]),
     err |-> ""]

\* StraightLane.reset_start_end
reset_start_end(self, start, end) ==
    update_properties([AbstractLane__init__(self) EXCEPT !.start = start, !.end = end])

\* StraightLane.position, with a lateral axis that points to the right
position_right(self, longitudinal, lateral) ==
    <<RSub(RAdd(self.start.x, RMul(longitudinal, self.direction[1])),
           RMul(lateral, self.direction_lateral[1])),
      RSub(RAdd(self.start.y, RMul(longitudinal, self.direction[2])),
           RMul(lateral, self.direction_lateral[2]))>>

\* StraightLane.position
position(self, longitudinal, lateral) ==
    <<RAdd(RAdd(self.start.x, RMul(longitudinal, self.direction[1])),
           RMul(lateral, self.direction_lateral[1])),
      RAdd(RAdd(self.start.y, RMul(longitudinal, self.direction[2])),
           RMul(lateral, self.direction_lateral[2]))>>

\* StraightLane.heading_at and width_at
heading_at(self, longitudinal) == self.heading
width_at(self, longitudinal) == self.width

\* StraightLane.local_coordinates
local_coordinates(self, pos) ==
    LET delta_x == RSub(pos[1], self.start.x)
        delta_y == RSub(pos[2], self.start.y)
    IN  <<RAdd(RMul(delta_x, self.direction[1]), RMul(delta_y, self.direction[2])),
          RAdd(RMul(delta_x, self.direction_lateral[1]),
               RMul(delta_y, self.direction_lateral[2]))>>

(* The lanes, the calls and the arguments of the model *)

\* largest length of an axis-aligned lane
MaxAxis == 1
\* largest longitudinal and lateral offset asked for
MaxOffset == 1

Kinds == {"ndarray", "seq"}
Starts == {<<0, 0>>, <<1, -1>>}
\* end - start: the zero vector, the axis-aligned vectors and two oblique
\* vectors of whole length
Displacements ==
    {<<0, 0>>, <<3, 4>>, <<-4, 3>>}
    \cup UNION {{<<k, 0>>, <<-k, 0>>, <<0, k>>, <<0, -k>>} : k \in 1..MaxAxis}
Attributes ==
    {[width |-> 4, line_types |-> <<"broken", "broken">>, forbidden |-> FALSE,
      priority |-> 0, speed_limit |-> 1000],
     [width |-> 3, line_types |-> <<"continuous", "none">>, forbidden |-> TRUE,
      priority |-> 1, speed_limit |-> 60]}
Offsets == -MaxOffset..MaxOffset

NoCall == [op |-> "", start |-> Vec("seq", 0, 0), end |-> Vec("seq", 0, 0),
           arg |-> <<nan, nan>>, ret |-> <<nan, nan>>, err |-> ""]
\* no lane yet; err is the exception of the latest constructor or
\* reset_start_end call on the lane ("" when it returned)
NoLane == [made |-> FALSE, self |-> StraightLane(Vec("seq", 0, 0), Vec("seq", 1, 0),
                                                 CHOOSE a \in Attributes : a.width = 4),
           attr |-> CHOOSE a \in Attributes : a.width = 4, err |-> "", call |-> NoCall]

LaneNew ==
    /\ ~lane.made
    /\ \E p \in Starts, d \in Displacements, k \in Kinds, attr \in Attributes :
         LET start == Vec(k, p[1], p[2])
             end == Vec(k, p[1] + d[1], p[2] + d[2])
         IN  lane' = [made |-> TRUE, self |-> StraightLane(start, end, attr), attr |-> attr,
                      err |-> "",
                      call |-> [NoCall EXCEPT !.op = "__init__", !.start = start, !.end = end]]
    /\ UNCHANGED <<bigvars, park, veh, asset>>

LaneReset ==
    /\ lane.made
    /\ \E p \in Starts, d \in Displacements, k \in Kinds :
         LET start == Vec(k, p[1], p[2])
             end == Vec(k, p[1] + d[1], p[2] + d[2])
             r == reset_start_end(lane.self, start, end)
         IN  lane' = [lane EXCEPT !.self = r.self, !.err = r.err,
                         !.call = [NoCall EXCEPT !.op = "reset_start_end", !.start = start,
                                                 !.end = end, !.err = r.err]]
    /\ UNCHANGED <<bigvars, park, veh, asset>>

LanePosition ==
    /\ lane.made
    /\ \E l \in Offsets, t \in Offsets :
         lane' = [lane EXCEPT !.call = [NoCall EXCEPT !.op = "position",
                                           !.arg = <<R(l), R(t)>>,
                                           !.ret = position(lane.self, R(l), R(t))]]
    /\ UNCHANGED <<bigvars, park, veh, asset>>

\* local_coordinates of the position just returned
LaneLocalCoordinates ==
    /\ lane.made
    /\ lane.call.op = "position"
    /\ lane' = [lane EXCEPT !.call = [NoCall EXCEPT !.op = "local_coordinates",
                                         !.arg = lane.call.arg,
                                         !.ret = local_coordinates(lane.self, lane.call.ret)]]
    /\ UNCHANGED <<bigvars, park, veh, asset>>

LaneHeadingAt ==
    /\ lane.made
    /\ \E l \in Offsets :
         lane' = [lane EXCEPT !.call = [NoCall EXCEPT !.op = "heading_at",
                                           !.arg = <<R(l), R(0)>>,
                                           !.ret = heading_at(lane.self, R(l))]]
    /\ UNCHANGED <<bigvars, park, veh, asset>>

LaneWidthAt ==
    /\ lane.made
    /\ \E l \in Offsets :
         lane' = [lane EXCEPT !.call = [NoCall EXCEPT !.op = "width_at",
                                           !.arg = <<R(l), R(0)>>,
                                           !.ret = <<R(width_at(lane.self, R(l))), R(0)>>]]
    /\ UNCHANGED <<bigvars, park, veh, asset>>

-----------------------------------------------------------------------------
(* class PGDriveEnv (envs/pgdrive_env.py): done_function, _is_out_of_road  *)
(* and reward_function, and their overrides in MultiAgentParkingLotEnv     *)
(* (envs/marl_envs/marl_parking_lot.py).  A vehicle is the record of the    *)
(* flags these functions read.                                             *)

Classes == {"PGDriveEnv", "MultiAgentParkingLotEnv"}

\* PGDriveEnv._is_out_of_road
PGDriveEnv__is_out_of_road(config, vehicle) ==
    LET ret == \/ vehicle.on_yellow_continuous_line
               \/ vehicle.on_white_continuous_line
               \/ ~vehicle.on_lane
               \/ vehicle.crash_sidewalk
    IN  IF config.out_of_route_done THEN ret \/ vehicle.out_of_route ELSE ret

\* MultiAgentParkingLotEnv._is_out_of_road
MultiAgentParkingLotEnv__is_out_of_road(config, vehicle) ==
    vehicle.on_yellow_continuous_line \/ ~vehicle.on_lane \/ vehicle.crash_sidewalk

\* self._is_out_of_road(vehicle) on an environment of class cls
_is_out_of_road(cls, config, vehicle) ==
    IF cls = "MultiAgentParkingLotEnv"
    THEN MultiAgentParkingLotEnv__is_out_of_road(config, vehicle)
    ELSE PGDriveEnv__is_out_of_road(config, vehicle)

\* PGDriveEnv.done_function without the test of _is_out_of_road
done_function_on_road(cls, config, vehicle) ==
    LET done == \/ vehicle.arrive_destination
                \/ vehicle.crash_vehicle
                \/ vehicle.crash_object
                \/ vehicle.crash_building
    IN  [done |-> done,
         done_info |-> [crash_vehicle |-> vehicle.crash_vehicle,
                        crash_object |-> vehicle.crash_object,
                        crash_building |-> vehicle.crash_building,
                        out_of_road |-> FALSE,
                        arrive_dest |-> vehicle.arrive_destination,
                        crash |-> \/ vehicle.crash_vehicle
                                  \/ vehicle.crash_object
                                  \/ vehicle.crash_building]]

\* PGDriveEnv.done_function taking a crash to be a crash with a vehicle
done_function_crash_vehicle(cls, config, vehicle) ==
    LET out == _is_out_of_road(cls, config, vehicle)
        done == \/ vehicle.arrive_destination
                \/ out
                \/ vehicle.crash_vehicle
    IN  [done |-> done,
         done_info |-> [crash_vehicle |-> vehicle.crash_vehicle,
                        crash_object |-> vehicle.crash_object,
                        crash_building |-> vehicle.crash_building,
                        out_of_road |-> out,
                        arrive_dest |-> vehicle.arrive_destination,
                        crash |-> vehicle.crash_vehicle]]

\* PGDriveEnv.done_function
done_function(cls, config, vehicle) ==
    LET out == _is_out_of_road(cls, config, vehicle)
        done == \/ vehicle.arrive_destination
                \/ out
                \/ vehicle.crash_vehicle
                \/ vehicle.crash_object
                \/ vehicle.crash_building
    IN  [done |-> done,
         done_info |-> [crash_vehicle |-> vehicle.crash_vehicle,
                        crash_object |-> vehicle.crash_object,
                        crash_building |-> vehicle.crash_building,
                        out_of_road |-> out,
                        arrive_dest |-> vehicle.arrive_destination,
                        crash |-> \/ vehicle.crash_vehicle
                                  \/ vehicle.crash_object
                                  \/ vehicle.crash_building]]

\* MultiAgentPGDrive.done_function, which MultiAgentParkingLotEnv inherits
MultiAgentPGDrive_done_function(cls, config, vehicle) == done_function(cls, config, vehicle)

\* PGDriveEnv.reward_function testing the penalties before the arrival
reward_function_penalty_first(cls, config, vehicle) ==
    [reward |-> IF _is_out_of_road(cls, config, vehicle) THEN "-out_of_road_penalty"
                ELSE IF vehicle.crash_vehicle THEN "-crash_vehicle_penalty"
                ELSE IF vehicle.crash_object THEN "-crash_object_penalty"
                ELSE IF vehicle.arrive_destination THEN "+success_reward"
                ELSE "step_reward",
     step_info |-> [step_reward |-> "step_reward"]]

\* PGDriveEnv.reward_function: the reward, by the name of the configured
\* value that is returned; step_info["step_reward"] is the reward of driving
reward_function(cls, config, vehicle) ==
    [reward |-> IF vehicle.arrive_destination THEN "+success_reward"
                ELSE IF _is_out_of_road(cls, config, vehicle) THEN "-out_of_road_penalty"
                ELSE IF vehicle.crash_vehicle THEN "-crash_vehicle_penalty"
                ELSE IF vehicle.crash_object THEN "-crash_object_penalty"
                ELSE "step_reward",
     step_info |-> [step_reward |-> "step_reward"]]

\* PGDriveEnv.cost_function
cost_function(cls, config, vehicle) ==
    IF _is_out_of_road(cls, config, vehicle) THEN "out_of_road_cost"
    ELSE IF vehicle.crash_vehicle THEN "crash_vehicle_cost"
    ELSE IF vehicle.crash_object THEN "crash_object_cost"
    ELSE "0"

\* the flags of a vehicle
Flags == {"arrive_destination", "on_yellow_continuous_line", "on_white_continuous_line",
          "on_lane", "crash_sidewalk", "out_of_route", "crash_vehicle", "crash_object",
          "crash_building"}

\* a vehicle driving on its lane
Driving == [f \in Flags |-> f = "on_lane"]

\* the vehicle with flag f changed
Toggle(vehicle, f) == [vehicle EXCEPT ![f] = ~@]

\* a driving vehicle and the vehicles with one flag changed
Vehicles == {Driving} \cup {Toggle(Driving, f) : f \in Flags}

Configs == [out_of_route_done : BOOLEAN]

-----------------------------------------------------------------------------
(* class ParkingLotSpawnManager and MultiAgentParkingLotEnv                *)
(* (envs/marl_envs/marl_parking_lot.py)                                    *)

\* parking spaces on one side of the parking lot (one_side_vehicle_number)
MaxSide == 1
\* agents that join an episode
MaxAgents == 3

parking_space_num == 2 * MaxSide

\* a Python dict d: d[k] = v, d.pop(k), d.values()
Put(d, k, v) == [x \in (DOMAIN d) \cup {k} |-> IF x = k THEN v ELSE d[x]]
Del(d, k) == [x \in (DOMAIN d) \ {k} |-> d[x]]
Values(d) == {d[x] : x \in DOMAIN d}
EmptyDict == [x \in {} |-> x]

\* Road(start_node, end_node) and -road; a node is <<block, part, index>>
Road(start_node, end_node) == [start_node |-> start_node, end_node |-> end_node, negative |-> FALSE]
Neg(road) == [start_node |-> road.end_node, end_node |-> road.start_node,
              negative |-> ~road.negative]

\* config["in_spawn_roads"]: Road(FirstPGBlock.NODE_2, FirstPGBlock.NODE_3) and
\* the negative roads of two exits of the T-intersection
in_spawn_roads ==
    {Road(<<0, 0, 2>>, <<0, 0, 3>>),
     Neg(Road(<<2, 0, 0>>, <<2, 0, 1>>)),
     Neg(Road(<<2, 2, 0>>, <<2, 2, 1>>))}

\* ParkingLot.node(1, i, 5) -> ParkingLot.node(1, i, 6): the road out of
\* parking space i; node 1 -> node 2 of the space is the road into it
OutRoad(i) == Road(<<1, i, 5>>, <<1, i, 6>>)
InRoad(i) == Road(<<1, i, 1>>, <<1, i, 2>>)

\* MultiAgentParkingLotEnv._get_out_spawn_roads
_get_out_spawn_roads(n) == {OutRoad(i) : i \in 1..n}

\* ParkingLot.is_in_direction_parking_space, out_direction_parking_space
is_in_direction_parking_space(road) == \E i \in 1..parking_space_num : road = InRoad(i)
out_direction_parking_space(road) ==
    OutRoad(CHOOSE i \in 1..parking_space_num : road = InRoad(i))

\* the parking space a road belongs to (0: none)
Space(road) ==
    IF \E i \in 1..parking_space_num : road \in {InRoad(i), OutRoad(i)}
    THEN CHOOSE i \in 1..parking_space_num : road \in {InRoad(i), OutRoad(i)}
    ELSE 0

\* ParkingLot.dest_roads (current_map.parking_space): one road per parking
\* space, all into the spaces or all out of them
dest_roads(direction) ==
    {IF direction = "in" THEN InRoad(i) ELSE OutRoad(i) : i \in 1..parking_space_num}

\* ParkingLotSpawnManager.__init__; current_map is the map of the engine
ParkingLotSpawnManager(direction) ==
    [parking_space_available |-> {},
     _parking_spaces |-> None,
     v_dest_pair |-> EmptyDict,
     current_map |-> [parking_space |-> dest_roads(direction)]]

\* ParkingLotSpawnManager.get_parking_space, that does not take the space
\* out of the available ones
get_parking_space_shared(self, v_id, parking_space) ==
    LET init == IF self._parking_spaces = None
                THEN [self EXCEPT !._parking_spaces = Some(self.current_map.parking_space),
                                  !.v_dest_pair = EmptyDict,
                                  !.parking_space_available = self.current_map.parking_space]
                ELSE self
    IN  IF init.parking_space_available = {}
        THEN [self |-> init, err |-> "ValueError", result |-> None]
        ELSE [self |-> [init EXCEPT !.v_dest_pair = Put(@, v_id, parking_space)],
              err |-> "", result |-> Some(parking_space)]

\* ParkingLotSpawnManager.get_parking_space; parking_space is the available
\* space that np_random.choice draws (any of them when the manager is filled
\* by this call)
get_parking_space(self, v_id, parking_space) ==
    LET init == IF self._parking_spaces = None
                THEN [self EXCEPT !._parking_spaces = Some(self.current_map.parking_space),
                                  !.v_dest_pair = EmptyDict,
                                  !.parking_space_available = self.current_map.parking_space]
                ELSE self
    IN  IF init.parking_space_available = {}
        THEN [self |-> init, err |-> "ValueError", result |-> None]
        ELSE [self |-> [init EXCEPT !.parking_space_available = @ \ {parking_space},
                                    !.v_dest_pair = Put(@, v_id, parking_space)],
              err |-> "", result |-> Some(parking_space)]

\* the spaces np_random.choice can draw in get_parking_space
Drawable(self) ==
    IF self._parking_spaces = None THEN self.current_map.parking_space
    ELSE self.parking_space_available

\* ParkingLotSpawnManager.add_available_parking_space
add_available_parking_space(self, parking_space) ==
    [self EXCEPT !.parking_space_available = @ \cup {parking_space}]

\* ParkingLotSpawnManager.after_vehicle_done
after_vehicle_done(self, v_id) ==
    IF v_id \in DOMAIN self.v_dest_pair
    THEN [self EXCEPT !.v_dest_pair = Del(@, v_id),
                      !.parking_space_available = @ \cup {self.v_dest_pair[v_id]}]
    ELSE self

\* ParkingLotSpawnManager.reset
ParkingLotSpawnManager_reset(self) ==
    [self EXCEPT !._parking_spaces = Some(self.current_map.parking_space),
                 !.v_dest_pair = EmptyDict,
                 !.parking_space_available = self.current_map.parking_space]

\* ParkingLotSpawnManager.update_destination_for: the manager afterwards, the
\* exception and the destination node; spawn_road is the road of
\* vehicle_config["spawn_lane_index"], end_road the road that np_random.choice
\* draws from its list
update_destination_for(self, vehicle_id, spawn_road, end_road) ==
    IF spawn_road \in in_spawn_roads
    THEN LET r == get_parking_space(self, vehicle_id, end_road)
         IN  [self |-> r.self, err |-> r.err,
              destination_node |-> IF r.err = "" THEN Some(Get(r.result).end_node) ELSE None]
    ELSE [self |-> self, err |-> "", destination_node |-> Some(Neg(end_road).end_node)]

\* the roads np_random.choice draws from in update_destination_for
EndRoads(self, spawn_road) ==
    IF spawn_road \in in_spawn_roads THEN Drawable(self) ELSE in_spawn_roads

\* the filter of _respawn_single_vehicle, that keeps a place on an entrance
\* road whether or not a parking space is available
filter_ret_keep_entrances(self, safe_places) ==
    LET road(place) == IF is_in_direction_parking_space(place)
                       THEN out_direction_parking_space(place)
                       ELSE place
    IN  {road(place) : place \in
            {q \in safe_places :
                IF q \in in_spawn_roads
                THEN TRUE
                ELSE road(q) \in self.parking_space_available}}

\* MultiAgentParkingLotEnv._respawn_single_vehicle, lines 174-190: the spawn
\* roads (as written back to spawn_lane_index) of the places that are kept
filter_ret(self, safe_places) ==
    LET road(place) == IF is_in_direction_parking_space(place)
                       THEN out_direction_parking_space(place)
                       ELSE place
    IN  {road(place) : place \in
            {q \in safe_places :
                IF q \in in_spawn_roads
                THEN Cardinality(self.parking_space_available) > 0
                ELSE road(q) \in self.parking_space_available}}

\* MultiAgentParkingLotEnv.done_function: the result, and the spawn manager
\* afterwards
MultiAgentParkingLotEnv_done_function(self, config, vehicle_id, vehicle) ==
    LET r == MultiAgentPGDrive_done_function("MultiAgentParkingLotEnv", config, vehicle)
    IN  [done |-> r.done, done_info |-> r.done_info,
         spawn_manager |-> IF r.done THEN after_vehicle_done(self, vehicle_id) ELSE self]

(* The parking-lot environment of the model *)

\* the roads a spawn place can be on: config["spawn_roads"] and the roads
\* into the parking spaces
SpawnPlaces ==
    in_spawn_roads \cup _get_out_spawn_roads(parking_space_num)
        \cup {InRoad(i) : i \in 1..parking_space_num}

\* what get_available_respawn_places returns: no place, one place or all
SafePlaces == {{}, SpawnPlaces} \cup {{p} : p \in SpawnPlaces}

\* PGDriveEnv.default_config
default_config == [out_of_route_done |-> FALSE]

NoParkCall == [op |-> "", v |-> 0, kept |-> {}, place |-> None, err |-> "",
               destination_node |-> None, done |-> FALSE]

\* the environment after setup_engine, before the first reset
ParkNew(direction) ==
    [spawn_manager |-> ParkingLotSpawnManager(direction),
     agents |-> {},
     next_agent |-> 1,
     call |-> NoParkCall]

\* env.reset(): the spawn manager is reset and the agents start over
ParkReset ==
    /\ park' = [park EXCEPT !.spawn_manager = ParkingLotSpawnManager_reset(@),
                            !.agents = {},
                            !.next_agent = 1,
                            !.call = [NoParkCall EXCEPT !.op = "reset"]]
    /\ UNCHANGED <<bigvars, lane, veh, asset>>

\* a new agent is placed on a spawn road by the spawn manager, which calls
\* update_destination_for for it
ParkSpawn ==
    /\ park.next_agent <= MaxAgents
    /\ \E spawn_road \in SpawnPlaces :
         LET ends == EndRoads(park.spawn_manager, spawn_road) IN
         \E end_road \in IF ends = {} THEN {spawn_road} ELSE ends :
            LET r == update_destination_for(park.spawn_manager, park.next_agent,
                                            spawn_road, end_road)
            IN  park' = [park EXCEPT
                    !.spawn_manager = r.self,
                    !.agents = IF r.err = "" THEN @ \cup {park.next_agent} ELSE @,
                    !.next_agent = IF r.err = "" THEN @ + 1 ELSE @,
                    !.call = [NoParkCall EXCEPT !.op = "update_destination_for",
                                                !.v = park.next_agent,
                                                !.place = Some(spawn_road),
                                                !.err = r.err,
                                                !.destination_node = r.destination_node]]
    /\ UNCHANGED <<bigvars, lane, veh, asset>>

\* MultiAgentParkingLotEnv._respawn_single_vehicle
ParkRespawn ==
    /\ park.next_agent <= MaxAgents
    /\ \E safe_places_dict \in SafePlaces, allow_respawn \in BOOLEAN :
         LET kept == filter_ret(park.spawn_manager, safe_places_dict) IN
         IF kept = {} \/ ~allow_respawn
         THEN park' = [park EXCEPT !.call = [NoParkCall EXCEPT !.op = "_respawn_single_vehicle",
                                                              !.kept = kept]]
         ELSE \E new_spawn_place \in kept :
              LET ends == EndRoads(park.spawn_manager, new_spawn_place) IN
              \E end_road \in IF ends = {} THEN {new_spawn_place} ELSE ends :
                 LET r == update_destination_for(park.spawn_manager, park.next_agent,
                                                 new_spawn_place, end_road)
                 IN  park' = [park EXCEPT
                         !.spawn_manager = r.self,
                         !.agents = @ \cup {park.next_agent},
                         !.next_agent = @ + 1,
                         !.call = [NoParkCall EXCEPT !.op = "_respawn_single_vehicle",
                                                     !.v = park.next_agent,
                                                     !.kept = kept,
                                                     !.place = Some(new_spawn_place),
                                                     !.err = r.err,
                                                     !.destination_node = r.destination_node]]
    /\ UNCHANGED <<bigvars, lane, veh, asset>>

\* MultiAgentParkingLotEnv.done_function for one of the agents
ParkDone ==
    /\ \E vehicle_id \in park.agents, vehicle \in Vehicles :
         LET r == MultiAgentParkingLotEnv_done_function(park.spawn_manager, default_config,
                                                        vehicle_id, vehicle)
         IN  park' = [park EXCEPT
                 !.spawn_manager = r.spawn_manager,
                 !.agents = IF r.done THEN @ \ {vehicle_id} ELSE @,
                 !.call = [NoParkCall EXCEPT !.op = "done_function", !.v = vehicle_id,
                                             !.done = r.done]]
    /\ UNCHANGED <<bigvars, lane, veh, asset>>

(* The spawn manager called directly, with any vehicle ids in any order *)

\* spawn_manager.reset()
ManagerReset ==
    /\ park' = [park EXCEPT !.spawn_manager = ParkingLotSpawnManager_reset(@),
                            !.call = [NoParkCall EXCEPT !.op = "reset"]]
    /\ UNCHANGED <<bigvars, lane, veh, asset>>

\* spawn_manager.get_parking_space(v_id), also for a v_id that has a
\* destination already
ManagerGetParkingSpace ==
    /\ \E v_id \in 1..MaxAgents :
         LET drawable == Drawable(park.spawn_manager) IN
         \E parking_space \in IF drawable = {} THEN {OutRoad(1)} ELSE drawable :
            LET r == get_parking_space(park.spawn_manager, v_id, parking_space)
            IN  park' = [park EXCEPT
                    !.spawn_manager = r.self,
                    !.call = [NoParkCall EXCEPT !.op = "get_parking_space",
                                                !.v = v_id,
                                                !.err = r.err]]
    /\ UNCHANGED <<bigvars, lane, veh, asset>>

\* spawn_manager.after_vehicle_done(v_id), also for a v_id without destination
ManagerAfterVehicleDone ==
    /\ \E v_id \in 1..MaxAgents :
         park' = [park EXCEPT
             !.spawn_manager = after_vehicle_done(@, v_id),
             !.call = [NoParkCall EXCEPT !.op = "after_vehicle_done", !.v = v_id]]
    /\ UNCHANGED <<bigvars, lane, veh, asset>>

(* One vehicle of one environment *)

\* an environment of class cls and its vehicle, before the first step
VehNew(cls, config) ==
    [cls |-> cls, config |-> config, id |-> 1, vehicle |-> Driving,
     done |-> None, reward |-> None, cost |-> None]

\* a simulation step changes one flag of the vehicle; what was computed for
\* the step before is gone
VehicleStep ==
    /\ \E f \in Flags :
         veh' = [veh EXCEPT !.vehicle = Toggle(@, f),
                            !.done = None, !.reward = None, !.cost = None]
    /\ UNCHANGED <<bigvars, lane, park, asset>>

\* env.done_function(vehicle_id)
EnvDone ==
    /\ veh.done = None
    /\ IF veh.cls = "MultiAgentParkingLotEnv"
       THEN LET r == MultiAgentParkingLotEnv_done_function(park.spawn_manager, veh.config,
                                                           veh.id, veh.vehicle)
            IN  /\ veh' = [veh EXCEPT !.done = Some([done |-> r.done,
                                                     done_info |-> r.done_info])]
                /\ park' = [park EXCEPT !.spawn_manager = r.spawn_manager]
       ELSE /\ veh' = [veh EXCEPT !.done = Some(done_function(veh.cls, veh.config, veh.vehicle))]
            /\ UNCHANGED park
    /\ UNCHANGED <<bigvars, lane, asset>>

\* env.reward_function(vehicle_id)
EnvReward ==
    /\ veh.reward = None
    /\ veh' = [veh EXCEPT !.reward = Some(reward_function(veh.cls, veh.config, veh.vehicle))]
    /\ UNCHANGED <<bigvars, lane, park, asset>>

\* env.cost_function(vehicle_id)
EnvCost ==
    /\ veh.cost = None
    /\ veh' = [veh EXCEPT !.cost = Some(cost_function(veh.cls, veh.config, veh.vehicle))]
    /\ UNCHANGED <<bigvars, lane, park, asset>>

-----------------------------------------------------------------------------
(* class AssetLoader (engine/asset_loader.py) and the engines that          *)
(* initialize and close it (engine/core/engine_core.py)                    *)

\* engines made in a run
MaxEngines == 3

RENDER_MODE_NONE == "none"
RENDER_MODE_ONSCREEN == "onscreen"
RENDER_MODE_OFFSCREEN == "offscreen"

\* the class attributes of AssetLoader when the module is loaded
AssetLoader == [loader |-> None, asset_path |-> None]

\* AssetLoader.init_loader
init_loader(cls, engine) ==
    IF engine.win = None
    THEN [cls EXCEPT !.asset_path = Some("assets")]
    ELSE [cls EXCEPT !.asset_path = Some("assets"), !.loader = Some(engine.loader)]

\* AssetLoader.get_loader: the exception and the loader returned
get_loader(cls) ==
    IF cls.loader = None
    THEN [err |-> "AssertionError", result |-> None]
    ELSE [err |-> "", result |-> cls.loader]

\* AssetLoader.load_model: the exception and the loader that loads the model
load_model(cls) ==
    IF cls.loader = None
    THEN [err |-> "AssertionError", result |-> None]
    ELSE [err |-> "", result |-> cls.loader]

\* AssetLoader.initialized
initialized(cls) == cls.asset_path # None

\* initialize_asset_loader without its test of AssetLoader.initialized()
initialize_asset_loader_again(cls, engine) == init_loader(cls, engine)

\* initialize_asset_loader
initialize_asset_loader(cls, engine) ==
    IF initialized(cls) THEN cls ELSE init_loader(cls, engine)

\* close_asset_loader, that forgets the path only
close_asset_loader_path(cls) == [cls EXCEPT !.asset_path = None]

\* close_asset_loader
close_asset_loader(cls) == [cls EXCEPT !.loader = None, !.asset_path = None]

\* EngineCore.__init__: the engine, and the class AssetLoader afterwards.
\* The window of the engine exists unless its mode is RENDER_MODE_NONE; its
\* loader is its own.
EngineCore(cls, id, global_config, is_mac) ==
    LET mode0 == IF global_config.use_render THEN RENDER_MODE_ONSCREEN
                 ELSE IF global_config.offscreen_render THEN RENDER_MODE_OFFSCREEN
                 ELSE RENDER_MODE_NONE
        mode == IF is_mac /\ mode0 = RENDER_MODE_OFFSCREEN THEN RENDER_MODE_ONSCREEN ELSE mode0
        self == [id |-> id, global_config |-> global_config, mode |-> mode,
                 win |-> IF mode = RENDER_MODE_NONE THEN None ELSE Some(id),
                 loader |-> id]
    IN  [self |-> self,
         AssetLoader |->
            IF ~global_config.debug_physics_world
                  /\ mode \in {RENDER_MODE_ONSCREEN, RENDER_MODE_OFFSCREEN}
            THEN initialize_asset_loader(cls, self)
            ELSE cls]

\* EngineCore.close_world: the class AssetLoader afterwards
close_world(cls, self) == close_asset_loader(cls)

GlobalConfigs == [use_render : BOOLEAN, offscreen_render : BOOLEAN, debug_physics_world : BOOLEAN]

NoAssetCall == [op |-> "", err |-> "", result |-> None]

\* no engine yet
AssetNew == [AssetLoader |-> AssetLoader, engine |-> None, made |-> 0, call |-> NoAssetCall]

\* initialize_engine(config): there is one engine at a time
EngineNew ==
    /\ asset.engine = None
    /\ asset.made < MaxEngines
    /\ \E global_config \in GlobalConfigs, is_mac \in BOOLEAN :
         LET r == EngineCore(asset.AssetLoader, asset.made + 1, global_config, is_mac)
         IN  asset' = [AssetLoader |-> r.AssetLoader, engine |-> Some(r.self),
                       made |-> asset.made + 1,
                       call |-> [NoAssetCall EXCEPT !.op = "__init__"]]
    /\ UNCHANGED <<bigvars, lane, park, veh>>

\* close_engine(): engine.close_world()
CloseWorld ==
    /\ asset.engine # None
    /\ asset' = [asset EXCEPT !.AssetLoader = close_world(@, Get(asset.engine)),
                              !.engine = None,
                              !.call = [NoAssetCall EXCEPT !.op = "close_world"]]
    /\ UNCHANGED <<bigvars, lane, park, veh>>

\* initialize_asset_loader(engine), called on the engine by a script
InitializeAssetLoader ==
    /\ asset.engine # None
    /\ asset' = [asset EXCEPT !.AssetLoader = initialize_asset_loader(@, Get(asset.engine)),
                              !.call = [NoAssetCall EXCEPT !.op = "initialize_asset_loader"]]
    /\ UNCHANGED <<bigvars, lane, park, veh>>

\* AssetLoader.get_loader()
GetLoader ==
    /\ LET r == get_loader(asset.AssetLoader)
       IN  asset' = [asset EXCEPT !.call = [op |-> "get_loader", err |-> r.err,
                                            result |-> r.result]]
    /\ UNCHANGED <<bigvars, lane, park, veh>>

\* AssetLoader.load_model(file_path)
LoadModel ==
    /\ LET r == load_model(asset.AssetLoader)
       IN  asset' = [asset EXCEPT !.call = [op |-> "load_model", err |-> r.err,
                                            result |-> r.result]]
    /\ UNCHANGED <<bigvars, lane, park, veh>>

-----------------------------------------------------------------------------
(* The specifications of the classes other than BIG *)

AuxInit ==
    /\ lane = NoLane
    /\ park = ParkNew("out")
    /\ veh = VehNew("PGDriveEnv", default_config)
    /\ asset = AssetNew

BigIdle ==
    /\ big = BIG(None, 0)
    /\ nfail = 0
    /\ big2 = BIG(None, 0)
    /\ oracle = {}

InitLane == BigIdle /\ AuxInit

NextLane ==
    \/ LaneNew \/ LaneReset
    \/ LanePosition \/ LaneLocalCoordinates \/ LaneHeadingAt \/ LaneWidthAt

SpecLane == InitLane /\ [][NextLane]_vars

InitPark ==
    /\ BigIdle
    /\ lane = NoLane
    /\ park \in {ParkNew(direction) : direction \in {"in", "out"}}
    /\ veh = VehNew("MultiAgentParkingLotEnv", default_config)
    /\ asset = AssetNew

NextPark == ParkReset \/ ParkSpawn \/ ParkRespawn \/ ParkDone

SpecPark == InitPark /\ [][NextPark]_vars

NextManager == ManagerReset \/ ManagerGetParkingSpace \/ ManagerAfterVehicleDone

SpecManager == InitPark /\ [][NextManager]_vars

InitEnv ==
    /\ BigIdle
    /\ lane = NoLane
    /\ park = ParkNew("out")
    /\ veh \in {VehNew(cls, config) : cls \in Classes, config \in Configs}
    /\ asset = AssetNew

NextEnv == VehicleStep \/ EnvDone \/ EnvReward \/ EnvCost

SpecEnv == InitEnv /\ [][NextEnv]_vars

InitAsset == BigIdle /\ AuxInit

NextAsset == EngineNew \/ CloseWorld \/ InitializeAssetLoader \/ GetLoader \/ LoadModel

SpecAsset == InitAsset /\ [][NextAsset]_vars

\* The functions of asset_loader.py called by a script, as
\* tests/vis_block/vis_intersection.py calls initialize_asset_loader, on
\* engines of its own making: asset.engine is the engine last given.
Engines ==
    {EngineCore(AssetLoader, id, global_config, is_mac).self :
        id \in 1..MaxEngines, global_config \in GlobalConfigs, is_mac \in BOOLEAN}

InitializeAssetLoaderOn ==
    /\ \E engine \in Engines :
         asset' = [asset EXCEPT !.AssetLoader = initialize_asset_loader(@, engine),
                                !.engine = Some(engine),
                                !.call = [NoAssetCall EXCEPT !.op = "initialize_asset_loader"]]
    /\ UNCHANGED <<bigvars, lane, park, veh>>

CloseAssetLoader ==
    /\ asset' = [asset EXCEPT !.AssetLoader = close_asset_loader(@),
                              !.call = [NoAssetCall EXCEPT !.op = "close_asset_loader"]]
    /\ UNCHANGED <<bigvars, lane, park, veh>>

InitLoader == BigIdle /\ AuxInit

NextLoader == InitializeAssetLoaderOn \/ CloseAssetLoader \/ GetLoader \/ LoadModel

SpecLoader == InitLoader /\ [][NextLoader]_vars

-----------------------------------------------------------------------------
(* The inputs *)

Seeds == {None} \cup {Some(n) : n \in 0..MaxSeed}
Entropy == 0..MaxEntropy

RECURSIVE SeqsOf(_, _)
SeqsOf(S, n) ==
    IF n = 0 THEN {<<>>}
    ELSE LET shorter == SeqsOf(S, n - 1)
         IN  shorter \cup {Append(s, x) : s \in {t \in shorter : Len(t) = n - 1}, x \in S}

ShortStrings == SeqsOf({"C", "X"}, MaxSeqLen)
Strings == ShortStrings \cup {CrTRXOS}

ParametersOver(strings) ==
    {IntParam(n) : n \in 0..MaxN} \cup {StrParam(s) : s \in strings} \cup {OtherParam}

Parameters == ParametersOver(Strings)

Methods == {BLOCK_NUM, BLOCK_SEQUENCE, SINGLE_BLOCK}

\* the answers the world may give to the next construction
Outcomes == IF nfail < MaxFail THEN {TRUE, FALSE} ELSE {TRUE}

-----------------------------------------------------------------------------
(* One run of one engine *)

Init ==
    /\ \E seed \in Seeds, entropy \in Entropy : big = BIG(seed, entropy)
    /\ nfail = 0
    /\ big2 = BIG(None, 0)
    /\ oracle = {}
    /\ AuxInit

Generate ==
    /\ big.pc = "new"
    /\ \E method \in Methods, parameter \in Parameters :
           big' = generate(big, method, parameter)
    /\ UNCHANGED <<nfail, big2, oracle>>
    /\ UNCHANGED aux

VisNoRender ==
    /\ big.pc = "new"
    /\ big.random_seed = None
    /\ big' = vis_no_render(big)
    /\ UNCHANGED <<nfail, big2, oracle>>
    /\ UNCHANGED aux

\* a turn of the loop in which the world is asked for a construction
StepConstruct ==
    /\ big.pc = "loop"
    /\ Constructs(big)
    /\ \E success \in Outcomes :
           /\ big' = loop(big, success)
           /\ nfail' = IF success THEN nfail ELSE nfail + 1
    /\ UNCHANGED <<big2, oracle>>
    /\ UNCHANGED aux

\* a turn of the loop in which it is not
StepOther ==
    /\ big.pc = "loop"
    /\ ~Constructs(big)
    /\ big' = loop(big, TRUE)
    /\ UNCHANGED <<nfail, big2, oracle>>
    /\ UNCHANGED aux

Next == Generate \/ VisNoRender \/ StepConstruct \/ StepOther

Spec == Init /\ [][Next]_vars

\* a turn of the loop in which the world is asked for a construction and may
\* give either answer, however often it has refused before
StepConstructAny ==
    /\ big.pc = "loop"
    /\ Constructs(big)
    /\ \E success \in BOOLEAN :
           /\ big' = loop(big, success)
           /\ nfail' = IF success THEN nfail ELSE nfail + 1
    /\ UNCHANGED <<big2, oracle>>
    /\ UNCHANGED aux

\* the targets of the runs followed to their end
MaxTarget == 1

TargetParameters ==
    {IntParam(n) : n \in 0..MaxTarget}
        \cup {StrParam(s) : s \in SeqsOf({"C", "X"}, MaxTarget)} \cup {OtherParam}

GenerateTarget ==
    /\ big.pc = "new"
    /\ \E method \in Methods, parameter \in TargetParameters :
           big' = generate(big, method, parameter)
    /\ UNCHANGED <<nfail, big2, oracle>>
    /\ UNCHANGED aux

NextHalt == GenerateTarget \/ StepConstructAny \/ StepOther

\* generate runs its while loop without yielding: a turn that can be taken is
\* taken
SpecHalt == Init /\ [][NextHalt]_vars /\ WF_vars(NextHalt)

-----------------------------------------------------------------------------
(* Two independent runs, started alike, against the same world.            *)
(* The world answers a construction by what is being constructed on what:  *)
(* the blocks of the stack with their types, sockets, seeds and trials.     *)
(* Both engines take their turns of the loop together; an answer once given *)
(* is given again to whoever asks the same question.                        *)

Strip(blocks) ==
    [i \in 1..Len(blocks) |->
        <<blocks[i].ID, blocks[i].socket, blocks[i].seed, blocks[i].number_of_sample_trial>>]

\* the question the next turn of e puts to the world
Query(e) ==
    IF e.next_step = NextStep_forward
    THEN Strip(Append(e.blocks, sample_block(e).block))
    ELSE Strip(e.blocks)

Asks(e) == e.pc = "loop" /\ Constructs(e) /\ sample_block(e).err = ""

\* the answers the world orc may give to e
Answers(orc, e) ==
    IF ~Asks(e) THEN {TRUE}
    ELSE IF \E a \in orc : a[1] = Query(e) THEN {a[2] : a \in {b \in orc : b[1] = Query(e)}}
    ELSE Outcomes

Told(orc, e, success) == IF Asks(e) THEN orc \cup {<<Query(e), success>>} ELSE orc

Turn(e, success) == IF e.pc = "loop" THEN loop(e, success) ELSE e

InitDet ==
    /\ \E seed \in Seeds, entropy \in Entropy, entropy2 \in Entropy :
           /\ entropy <= entropy2
           /\ big = BIG(seed, entropy)
           /\ big2 = BIG(seed, entropy2)
    /\ nfail = 0
    /\ oracle = {}
    /\ AuxInit

GenerateBoth ==
    /\ big.pc = "new" /\ big2.pc = "new"
    /\ \E method \in Methods, parameter \in ParametersOver(ShortStrings) :
           /\ big' = generate(big, method, parameter)
           /\ big2' = generate(big2, method, parameter)
    /\ UNCHANGED <<nfail, oracle>>
    /\ UNCHANGED aux

StepBoth ==
    /\ big.pc = "loop" \/ big2.pc = "loop"
    /\ \E success \in Answers(oracle, big) :
         \E success2 \in Answers(Told(oracle, big, success), big2) :
           /\ big' = Turn(big, success)
           /\ big2' = Turn(big2, success2)
           /\ oracle' = Told(Told(oracle, big, success), big2, success2)
           /\ nfail' = IF success /\ success2 THEN nfail ELSE nfail + 1
    /\ UNCHANGED aux

NextDet == GenerateBoth \/ StepBoth

SpecDet == InitDet /\ [][NextDet]_vars

-----------------------------------------------------------------------------
(* Properties of generate *)

\* the run was started by generate(BLOCK_NUM, n) with an integer n
ByBlockNum == big.entry = "generate" /\ big.method = BLOCK_NUM /\ big.parameter.type = "int"

\* the run was started by generate(BLOCK_SEQUENCE, s) with a string s
BySequence == big.entry = "generate" /\ big.method = BLOCK_SEQUENCE /\ big.parameter.type = "str"

\* C1: in a run of generate(BLOCK_NUM, n), n >= 0, on a fresh engine the stack
\* never holds more than n + 1 blocks, and when generate returns it holds
\* exactly n + 1 blocks.
C1_ReturnCount ==
    ByBlockNum =>
        /\ Len(big.blocks) <= big.parameter.num + 1
        /\ big.pc = "returned" => Len(big.blocks) = big.parameter.num + 1

C1_Witness ==
    /\ ByBlockNum /\ big.pc = "returned"
    /\ big.parameter.num = MaxN /\ Len(big.blocks) = MaxN + 1 /\ nfail >= 2

\* C2: a BACK step taken in generate while the stack holds at most the entry
\* block and one failed block ends the call with the failure SearchExhausted:
\* the search does not go on, nothing is indexed past the stack, and no
\* network is returned.
C2_SearchExhausted ==
    [][(big.entry = "generate" /\ big.pc = "loop" /\ big.next_step = NextStep_back
           /\ Len(big.blocks) <= 2)
       => (big'.pc = "raised" /\ big'.err = "SearchExhausted")]_vars

\* C3: in every state of a run of generate the stack is non-empty, its
\* element 0 is the entry block, and no step calls construct or destruct on
\* the entry block.
C3_EntryBlockFixed ==
    big.entry = "generate" =>
        /\ Len(big.blocks) >= 1
        /\ big.blocks[1].ID = FirstPGBlock_ID
        /\ \A k \in 1..Len(big.calls) : big.calls[k].pos # 1

\* C4: no block is constructed more than MAX_TRIAL times: every construct call
\* is made on a block that has had fewer than MAX_TRIAL trials, no block on
\* the stack has had more than MAX_TRIAL, and after the failure of a block's
\* MAX_TRIAL-th trial the engine destructs it, goes to BACK and does not
\* construct it again.
C4_TrialBound ==
    /\ [](/\ \A i \in 1..Len(big.blocks) : big.blocks[i].number_of_sample_trial <= MAX_TRIAL
          /\ \A k \in 1..Len(big.calls) :
                big.calls[k].op = "construct" => big.calls[k].trial < MAX_TRIAL)
    /\ [][(/\ big.pc = "loop" /\ big.next_step = NextStep_destruct_current
           /\ Last(big.blocks).number_of_sample_trial >= MAX_TRIAL)
          => (/\ big'.next_step = NextStep_back
              /\ \A k \in 1..Len(big'.calls) : big'.calls[k].op # "construct")]_vars

C4_Witness ==
    /\ big.pc = "loop" /\ big.next_step = NextStep_back
    /\ Len(big.blocks) >= 3
    /\ Last(big.blocks).number_of_sample_trial = MAX_TRIAL
    /\ ~Last(big.blocks).ok

\* C5: generate returns only in state FORWARD, and then every block on the
\* stack is one whose latest construction succeeded and that has not been
\* destructed since.
C5_ReturnedBlocksBuilt ==
    (big.entry = "generate" /\ big.pc = "returned") =>
        /\ big.next_step = NextStep_forward
        /\ \A i \in 1..Len(big.blocks) : big.blocks[i].ok /\ big.blocks[i].attached

C5_Witness ==
    /\ big.entry = "generate" /\ big.pc = "returned"
    /\ Len(big.blocks) >= 3 /\ nfail >= 3

\* C6: during and after generate(BLOCK_SEQUENCE, s) the block at stack index
\* i >= 1 has the type named by s[i - 1], whatever the seed and the failures.
C6_SequenceFidelity ==
    BySequence =>
        \A i \in 2..Len(big.blocks) : big.blocks[i].ID = big.parameter.str[i - 1]

\* a returned run that sampled more blocks than it kept: some were re-sampled
\* after backtracking
C6_Witness ==
    /\ BySequence /\ big.pc = "returned"
    /\ Len(big.blocks) >= 3
    /\ big.np_random.draws > 2 * (Len(big.blocks) - 1)

\* C7: a type sequence of k symbols yields k + 1 blocks, through
\* generate(BLOCK_SEQUENCE, s) and through the set-up of vis_no_render with
\* "CrTRXOS" alike: 8 blocks for the 7 symbols of "CrTRXOS".
C7_SequenceCount ==
    /\ (BySequence /\ big.pc = "returned") => Len(big.blocks) = Len(big.parameter.str) + 1
    /\ (big.entry = "vis_no_render" /\ big.pc = "returned") => Len(big.blocks) = Len(CrTRXOS) + 1

Mismatch(e) ==
    \/ e.method = BLOCK_NUM /\ e.parameter.type # "int"
    \/ e.method = BLOCK_SEQUENCE /\ e.parameter.type # "str"

\* C9: generate called with a parameter whose type does not match the method
\* fails at once: the stack, the control state, block_num, _block_sequence and
\* the random source are as before the call, no step is made and no network
\* is returned.
C9_InvalidParameter ==
    /\ []((big.entry = "generate" /\ Mismatch(big)) => (big.pc = "raised" /\ big.steps = 0))
    /\ [][(big.pc = "new" /\ big'.entry = "generate" /\ Mismatch(big'))
          => (/\ big'.pc = "raised"
              /\ big'.blocks = big.blocks
              /\ big'.next_step = big.next_step
              /\ big'.block_num = big.block_num
              /\ big'._block_sequence = big._block_sequence
              /\ big'.np_random = big.np_random)]_vars

C9_Witness ==
    /\ big.entry = "generate" /\ big.method = BLOCK_SEQUENCE /\ big.parameter.type = "int"
    /\ big.pc = "raised" /\ big.err = "AssertionError"

\* C10 as claimed: destruct is called on a block only once per successful
\* construct: never on a block whose latest construct reported failure, never
\* twice without a successful construct in between.
C10_DestructAfterSuccess ==
    \A k \in 1..Len(big.calls) :
        big.calls[k].op = "destruct" => (big.calls[k].ok /\ big.calls[k].attached)

\* C10 as amended: destruct is called on a block only once per construct of
\* it, successful or failed (the entry block's construction by its
\* constructor included): never on a block that has not been constructed
\* since it was last destructed.
C10_DestructAfterConstruct ==
    \A k \in 1..Len(big.calls) :
        big.calls[k].op = "destruct" => big.calls[k].attached

\* a destruct of a block whose construction has just failed
C10_Witness ==
    \E k \in 1..Len(big.calls) :
        /\ big.calls[k].op = "destruct" /\ ~big.calls[k].ok /\ big.calls[k].attached
        /\ big.calls[k].trial = MAX_TRIAL

-----------------------------------------------------------------------------
(* Properties of StraightLane *)

\* the end points of the lane differ
Distinct(self) == self.start.x # self.end.x \/ self.start.y # self.end.y
\* the lane runs along one of the axes
AxisAligned(self) == self.start.x = self.end.x \/ self.start.y = self.end.y
\* the four fields derived from start and end
DerivedFields(self) == <<self.length, self.heading, self.direction, self.direction_lateral>>

\* C11: on every axis-aligned lane with start # end whose constructor or
\* latest reset_start_end returned, local_coordinates(position(longitudinal,
\* lateral)) is (longitudinal, lateral) for every pair asked.
C11_RoundTrip ==
    (/\ lane.made /\ lane.err = ""
     /\ Distinct(lane.self) /\ AxisAligned(lane.self)
     /\ lane.call.op = "local_coordinates")
        => lane.call.ret = lane.call.arg

\* a round trip with both offsets non-zero on a lane that does not start at
\* the origin and runs against the y axis
C11_Witness ==
    /\ lane.made /\ lane.err = ""
    /\ Distinct(lane.self) /\ AxisAligned(lane.self)
    /\ lane.self.start.x # R(0) /\ lane.self.start.y # R(0)
    /\ lane.self.direction = <<R(0), R(-1)>>
    /\ lane.call.op = "local_coordinates"
    /\ lane.call.arg = <<R(-MaxOffset), R(MaxOffset)>>
    /\ lane.call.ret = lane.call.arg

\* C12: a constructor or reset_start_end call with start = end fails with
\* DegenerateGeometry, and no lane has length 0 or an undefined direction.
C12_DegenerateGeometry ==
    /\ (lane.call.op \in {"__init__", "reset_start_end"}
         /\ lane.call.start.x = lane.call.end.x /\ lane.call.start.y = lane.call.end.y)
            => lane.call.err = "DegenerateGeometry"
    /\ lane.made => (lane.self.length # R(0) /\ lane.self.direction # <<nan, nan>>)

\* C13: when reset_start_end(s, e) has been called on a lane, the derived
\* fields of the lane are those of a lane newly constructed with start s, end
\* e and the same attributes.
C13_ResetEqualsFresh ==
    lane.call.op = "reset_start_end"
        => DerivedFields(lane.self)
               = DerivedFields(StraightLane(lane.call.start, lane.call.end, lane.attr))

-----------------------------------------------------------------------------
(* Properties of the parking-lot environment *)

\* the parking spaces that are the destination of an agent
Destinations(self) == {Space(road) : road \in Values(self.v_dest_pair)}

\* C14: no road of parking_space_available is recorded in v_dest_pair, and
\* every parking-space place that _respawn_single_vehicle keeps has its road
\* in parking_space_available and is the destination of no agent.
C14_RespawnOffDestinations ==
    /\ [](park.spawn_manager.parking_space_available
            \cap Values(park.spawn_manager.v_dest_pair) = {})
    /\ [][park'.call.op = "_respawn_single_vehicle"
            => \A road \in park'.call.kept :
                  road \notin in_spawn_roads
                     => /\ road \in park.spawn_manager.parking_space_available
                        /\ Space(road) \notin Destinations(park.spawn_manager)]_vars

\* an agent has been respawned in a parking space while another parking space
\* is the destination of another agent
C14_Witness ==
    /\ park.call.op = "_respawn_single_vehicle"
    /\ park.call.place # None
    /\ Space(Get(park.call.place)) # 0
    /\ \E w \in DOMAIN park.spawn_manager.v_dest_pair :
          /\ w # park.call.v
          /\ Space(park.spawn_manager.v_dest_pair[w]) # 0
          /\ park.spawn_manager.v_dest_pair[w] \notin park.call.kept

\* C15: in MultiAgentParkingLotEnv a vehicle on a yellow or on a white
\* continuous line is out of road and done.
C15_WhiteLineOutOfRoad ==
    (/\ veh.cls = "MultiAgentParkingLotEnv"
     /\ veh.done # None
     /\ veh.vehicle.on_yellow_continuous_line \/ veh.vehicle.on_white_continuous_line)
        => (Get(veh.done).done /\ Get(veh.done).done_info.out_of_road)

\* the terminal values of reward_function
Terminal == {"+success_reward", "-out_of_road_penalty", "-crash_vehicle_penalty",
             "-crash_object_penalty"}

-----------------------------------------------------------------------------
(* Properties of AssetLoader *)

\* C17: when close_world has returned, and whenever there is no engine,
\* AssetLoader.initialized() is false and loader is None; a loader that
\* AssetLoader holds is the loader of the engine made last, which is not
\* closed.
C17_LifecycleRepeatable ==
    /\ (asset.call.op = "close_world" \/ asset.engine = None)
          => (~initialized(asset.AssetLoader) /\ asset.AssetLoader.loader = None)
    /\ asset.AssetLoader.loader # None
          => (asset.engine # None
              /\ asset.AssetLoader.loader = Some(Get(asset.engine).loader)
              /\ Get(asset.engine).id = asset.made)

\* the last engine of the run, made after others were closed, has its loader
\* in AssetLoader
C17_Witness ==
    /\ asset.made = MaxEngines
    /\ asset.engine # None
    /\ asset.AssetLoader.loader = Some(MaxEngines)
    /\ asset.call.op = "get_loader" /\ asset.call.result = Some(MaxEngines)

\* C18: whenever AssetLoader.initialized() is true, get_loader() returns a
\* loader.
C18_GetLoaderWhenInitialized ==
    (asset.call.op = "get_loader" /\ initialized(asset.AssetLoader))
        => (asset.call.err = "" /\ asset.call.result # None)

-----------------------------------------------------------------------------
(* Properties of the steps of the search *)

\* big_helper_func is about to make the step named by next_step
About(step) ==
    /\ big.pc = "loop" /\ big.block_num # None /\ ~Finished(big)
    /\ big.next_step = step

\* C19: a FORWARD step appends one newly sampled block to the stack, leaves
\* the blocks below alone and constructs the new block once; it goes on to
\* FORWARD when the construction succeeded and to DESTRUCT_CURRENT, with the
\* failed block on top of the stack, when it did not.
C19_ForwardStep ==
    [][About(NextStep_forward)
        => /\ big'.pc = "loop"
           /\ Len(big'.blocks) = Len(big.blocks) + 1
           /\ SubSeq(big'.blocks, 1, Len(big.blocks)) = big.blocks
           /\ Last(big'.blocks).index = Len(big.blocks)
           /\ Last(big'.blocks).number_of_sample_trial = 1
           /\ Len(big'.calls) = 1
           /\ big'.calls[1].op = "construct"
           /\ big'.calls[1].pos = Len(big'.blocks)
           /\ big'.calls[1].trial = 0
           /\ Last(big'.blocks).ok = big'.calls[1].result
           /\ big'.next_step = IF big'.calls[1].result THEN NextStep_forward
                               ELSE NextStep_destruct_current]_vars

\* a FORWARD step whose construction failed
C19_Witness ==
    /\ big.pc = "loop" /\ Len(big.blocks) >= 3
    /\ Len(big.calls) = 1
    /\ big.calls[1].op = "construct" /\ big.calls[1].trial = 0 /\ ~big.calls[1].result
    /\ ~Last(big.blocks).ok
    /\ big.next_step = NextStep_destruct_current

\* C20: a DESTRUCT_CURRENT step destructs the block on top of the stack and
\* nothing else, leaves the stack as long as it was and its blocks what they
\* were, and goes on to SEARCH_SIBLING when the top block has had fewer than
\* MAX_TRIAL trials and to BACK otherwise.
C20_DestructCurrentStep ==
    [][About(NextStep_destruct_current)
        => /\ big'.pc = "loop"
           /\ Len(big'.calls) = 1
           /\ big'.calls[1].op = "destruct"
           /\ big'.calls[1].pos = Len(big.blocks)
           /\ Len(big'.blocks) = Len(big.blocks)
           /\ \A k \in 1..Len(big.blocks) :
                 /\ k < Len(big.blocks) => big'.blocks[k] = big.blocks[k]
                 /\ [big'.blocks[k] EXCEPT !.attached = FALSE]
                       = [big.blocks[k] EXCEPT !.attached = FALSE]
           /\ ~Last(big'.blocks).attached
           /\ big'.next_step = IF Last(big.blocks).number_of_sample_trial < MAX_TRIAL
                               THEN NextStep_search_sibling ELSE NextStep_back]_vars

\* a DESTRUCT_CURRENT step after the first failure of a block
C20_Witness ==
    /\ big.pc = "loop" /\ Len(big.blocks) >= 2
    /\ Len(big.calls) = 1
    /\ big.calls[1].op = "destruct" /\ ~big.calls[1].ok
    /\ big.calls[1].pos = Len(big.blocks)
    /\ big.calls[1].trial < MAX_TRIAL
    /\ big.next_step = NextStep_search_sibling

\* the blocks of the stack are the same instances: type, place, parent,
\* socket and seed (their trial count and construction state left aside)
SameInstances(blocks1, blocks2) ==
    /\ Len(blocks1) = Len(blocks2)
    /\ \A k \in 1..Len(blocks1) :
          [blocks1[k] EXCEPT !.number_of_sample_trial = 0, !.attached = FALSE, !.ok = FALSE]
             = [blocks2[k] EXCEPT !.number_of_sample_trial = 0, !.attached = FALSE, !.ok = FALSE]

\* C21 as stated: every SEARCH_SIBLING step constructs the block on top of the
\* stack once more, goes on to FORWARD or to DESTRUCT_CURRENT and to nothing
\* else, and leaves the stack what it was.
C21_AlwaysReconstructs ==
    [][About(NextStep_search_sibling)
        => /\ Len(big'.calls) = 1
           /\ big'.calls[1].op = "construct"
           /\ big'.calls[1].pos = Len(big.blocks)
           /\ big'.next_step \in {NextStep_forward, NextStep_destruct_current}
           /\ SameInstances(big'.blocks, big.blocks)]_vars

\* C21 (amended): a SEARCH_SIBLING step on a top block that has had fewer than
\* MAX_TRIAL trials constructs that block once more and goes on to FORWARD when
\* the construction succeeded and to DESTRUCT_CURRENT when it failed; on a top
\* block that has had MAX_TRIAL trials it constructs nothing and goes on to
\* BACK. In both cases the stack holds the same block instances afterwards,
\* and the blocks below the top are untouched.
C21_SearchSiblingStep ==
    [][About(NextStep_search_sibling)
        => /\ big'.pc = "loop"
           /\ SameInstances(big'.blocks, big.blocks)
           /\ \A k \in 1..(Len(big.blocks) - 1) : big'.blocks[k] = big.blocks[k]
           /\ IF Last(big.blocks).number_of_sample_trial < MAX_TRIAL
              THEN /\ Len(big'.calls) = 1
                   /\ big'.calls[1].op = "construct"
                   /\ big'.calls[1].pos = Len(big.blocks)
                   /\ Last(big'.blocks).number_of_sample_trial
                         = Last(big.blocks).number_of_sample_trial + 1
                   /\ big'.next_step = IF big'.calls[1].result THEN NextStep_forward
                                       ELSE NextStep_destruct_current
              ELSE /\ big'.calls = <<>>
                   /\ big'.blocks = big.blocks
                   /\ big'.next_step = NextStep_back]_vars

\* a SEARCH_SIBLING step that found the trials of the top block used up
C21_Witness ==
    /\ big.pc = "loop" /\ big.steps > 0 /\ Len(big.blocks) >= 2
    /\ big.calls = <<>>
    /\ big.next_step = NextStep_back
    /\ Last(big.blocks).number_of_sample_trial = MAX_TRIAL
    /\ Last(big.blocks).ok /\ ~Last(big.blocks).attached

\* C22: a BACK step takes the top block, and only it, off the stack, destructs
\* the block that is on top afterwards and nothing else, leaves the blocks
\* below that one untouched, and always goes on to SEARCH_SIBLING.
C22_BackStep ==
    [][About(NextStep_back)
        => /\ big'.pc = "loop"
           /\ Len(big'.blocks) = Len(big.blocks) - 1
           /\ SameInstances(big'.blocks, Pop(big.blocks))
           /\ \A k \in 1..(Len(big.blocks) - 2) : big'.blocks[k] = big.blocks[k]
           /\ Len(big'.calls) = 1
           /\ big'.calls[1].op = "destruct"
           /\ big'.calls[1].pos = Len(big.blocks) - 1
           /\ big'.next_step = NextStep_search_sibling]_vars

\* C22 on the stacks that have a block below the top one
C22_BackStepAboveEntry ==
    [][About(NextStep_back) /\ Len(big.blocks) >= 2
        => /\ big'.pc = "loop"
           /\ Len(big'.blocks) = Len(big.blocks) - 1
           /\ SameInstances(big'.blocks, Pop(big.blocks))
           /\ \A k \in 1..(Len(big.blocks) - 2) : big'.blocks[k] = big.blocks[k]
           /\ Len(big'.calls) = 1
           /\ big'.calls[1].op = "destruct"
           /\ big'.calls[1].pos = Len(big.blocks) - 1
           /\ big'.next_step = NextStep_search_sibling]_vars

-----------------------------------------------------------------------------
(* Properties of whole runs of the search *)

\* C23: as long as every construction succeeds, a run of generate(BLOCK_NUM, n),
\* n >= 0, makes FORWARD steps only, one per block above the entry block,
\* calls no destruct and raises nothing; it returns after exactly n steps,
\* hence without any step when n = 0.
C23_StraightRun ==
    (ByBlockNum /\ nfail = 0 /\ big.parameter.num >= 0) =>
        /\ big.pc \in {"loop", "returned"}
        /\ big.next_step = NextStep_forward
        /\ \A k \in 1..Len(big.calls) : big.calls[k].op = "construct" /\ big.calls[k].result
        /\ big.steps = Len(big.blocks) - 1
        /\ big.steps <= big.parameter.num
        /\ big.pc = "returned" => big.steps = big.parameter.num

\* generate(BLOCK_NUM, MaxN) has returned and no construction has failed
C23_Witness ==
    /\ ByBlockNum /\ nfail = 0 /\ big.parameter.num = MaxN
    /\ big.pc = "returned" /\ big.steps = MaxN

\* generate(BLOCK_NUM, 0) has returned
C23_WitnessZero ==
    /\ ByBlockNum /\ big.parameter.num = 0
    /\ big.pc = "returned" /\ big.steps = 0

\* the most steps a search can spend on a block that has d blocks to go, itself
\* included, from the FORWARD step that samples it to the step that gives it
\* up: MAX_TRIAL constructions, each followed by the search of its child and
\* the BACK step out of it, or by the destruction of the block when it is the
\* last one wanted
RECURSIVE MostStepsBelow(_)
MostStepsBelow(d) ==
    IF d <= 1 THEN 2 * MAX_TRIAL
    ELSE MAX_TRIAL * (MostStepsBelow(d - 1) + 2) + 1

\* the most steps of a run whose target is e.block_num: the entry block, never
\* constructed by the search before, is searched below once as it stands and
\* once more after each of its MAX_TRIAL constructions
MostSteps(e) ==
    IF e.block_num = None THEN 1
    ELSE IF Get(e.block_num) <= 1 THEN 0
    ELSE (MAX_TRIAL + 1) * (MostStepsBelow(Get(e.block_num) - 1) + 1) + MAX_TRIAL + 2

Halted == big.pc \in {"returned", "raised"}

\* C24: whatever the world answers to each construction, and whatever the
\* target, the loop of generate halts, by returning or by raising; it makes no
\* more steps than a search that constructs every block instance MAX_TRIAL
\* times and samples one child after each construction that succeeded.
C24_Halts ==
    /\ [](big.steps <= MostSteps(big))
    /\ <>Halted

\* the longest run for the largest target: every block was refused or given up
\* MAX_TRIAL times, the entry block included
C24_Witness ==
    /\ big.entry = "generate" /\ big.block_num = Some(MaxTarget + 1)
    /\ big.pc = "raised" /\ big.err = "IndexError"
    /\ big.steps = MostSteps(big)
    /\ nfail >= 2 * MAX_TRIAL

\* one and the same block instance, whatever its trials and construction state
SameInstance(block1, block2) ==
    [block1 EXCEPT !.number_of_sample_trial = 0, !.attached = FALSE, !.ok = FALSE]
       = [block2 EXCEPT !.number_of_sample_trial = 0, !.attached = FALSE, !.ok = FALSE]

\* C25: every block of the stack above the entry block is attached to the block
\* just below it, by a socket that block has; and the stack changes at its top
\* only, so the block below is the very one that was on top when the block was
\* sampled: never an earlier ancestor, never a block that has been popped.
C25_AttachedToPrevious ==
    /\ [](\A k \in 2..Len(big.blocks) :
             /\ big.blocks[k].index = k - 1
             /\ big.blocks[k].parent = big.blocks[k - 1].index
             /\ \E i \in 1..SOCKET_NUM(big.blocks[k - 1].ID) :
                   big.blocks[k].socket = get_socket_indices(big.blocks[k - 1])[i])
    /\ [][\A k \in 1..(Len(big'.blocks) - 1) :
             /\ k <= Len(big.blocks)
             /\ SameInstance(big'.blocks[k], big.blocks[k])]_vars

\* a full stack built after blocks were given up, with a block attached to
\* another socket of its parent than the first
C25_Witness ==
    /\ big.pc = "returned" /\ Len(big.blocks) = MaxN + 1 /\ nfail >= 2
    /\ \E k \in 2..Len(big.blocks) :
          /\ big.blocks[k].socket > 0
          /\ big.blocks[k - 1].number_of_sample_trial = MAX_TRIAL

\* C26: the random source of the engine is advanced by FORWARD steps only: by
\* three draws (type, socket, seed of the block) when the types are drawn at
\* random, by two (socket, seed) when they are read from a sequence; the call
\* of generate, and the DESTRUCT_CURRENT, SEARCH_SIBLING and BACK steps, leave
\* it as it is.
C26_DrawsPerBlock ==
    [][IF About(NextStep_forward)
       THEN /\ big'.np_random.draws
                  = big.np_random.draws + (IF big._block_sequence = None THEN 3 ELSE 2)
            /\ big'.np_random # big.np_random
       ELSE big'.np_random = big.np_random]_vars

\* a run that read its types from a sequence, gave blocks up and sampled them
\* anew: five blocks sampled for a stack of three
C26_Witness ==
    /\ BySequence /\ big.pc = "returned" /\ Len(big.blocks) = 3
    /\ big.np_random.draws = 2 * 5
    /\ nfail >= 2

\* C27: the blocks whose bodies are in the world are the blocks of the stack,
\* the top one left out when the next step is SEARCH_SIBLING or BACK; a block
\* is constructed only when it is not in the world and destructed only when
\* it is, so that the two calls alternate on every block; and a block that is
\* popped has been destructed before.
C27_Materialized ==
    /\ [](\A k \in 1..Len(big.blocks) :
             big.blocks[k].attached
                <=> ~(/\ k = Len(big.blocks)
                      /\ big.next_step \in {NextStep_search_sibling, NextStep_back}))
    /\ [](\A c \in 1..Len(big.calls) :
             /\ big.calls[c].op = "construct" => ~big.calls[c].attached
             /\ big.calls[c].op = "destruct" => big.calls[c].attached)
    /\ [][Len(big'.blocks) < Len(big.blocks)
             => /\ Len(big'.blocks) = Len(big.blocks) - 1
                /\ ~Last(big.blocks).attached]_vars

\* a BACK step has popped a block and destructed the block below it, which had
\* been constructed with success: all blocks but the top one are in the world
C27_Witness ==
    /\ big.pc = "loop" /\ Len(big.blocks) >= 3
    /\ big.next_step = NextStep_search_sibling
    /\ Len(big.calls) = 1
    /\ big.calls[1].op = "destruct" /\ big.calls[1].ok /\ big.calls[1].attached
    /\ ~Last(big.blocks).attached
    /\ \A k \in 1..(Len(big.blocks) - 1) : big.blocks[k].attached

-----------------------------------------------------------------------------
(* Properties of the fields of a StraightLane *)

\* a == b on floats: nan is equal to nothing, itself included
FloatEq(a, b) == a # nan /\ b # nan /\ a = b
\* a > 0 on floats: false of nan
Positive(a) == a[2] > 0 /\ a[1] > 0

\* the point position(longitudinal, lateral) lies to the left of the point
\* position(longitudinal, 0) for one who looks along direction: the cross
\* product of direction and the offset between the two is positive
LiesLeft(self, longitudinal, ret) ==
    LET base == position(self, longitudinal, R(0))
    IN  Positive(RSub(RMul(self.direction[1], RSub(ret[2], base[2])),
                      RMul(self.direction[2], RSub(ret[1], base[1]))))

\* C28: on every lane, newly constructed or reset, direction_lateral is
\* (-direction.y, direction.x), and every position asked with a positive
\* lateral offset lies to the left of the driving direction.
C28_LateralIsLeft ==
    lane.made =>
        /\ FloatEq(lane.self.direction_lateral[1], RNeg(lane.self.direction[2]))
        /\ FloatEq(lane.self.direction_lateral[2], lane.self.direction[1])
        /\ (lane.call.op = "position" /\ Positive(lane.call.arg[2]))
              => LiesLeft(lane.self, lane.call.arg[1], lane.call.ret)

\* C28 on the lanes that have a direction
C28_LateralIsLeftOfDirection ==
    (lane.made /\ lane.self.direction # <<nan, nan>>) =>
        /\ FloatEq(lane.self.direction_lateral[1], RNeg(lane.self.direction[2]))
        /\ FloatEq(lane.self.direction_lateral[2], lane.self.direction[1])
        /\ (lane.call.op = "position" /\ Positive(lane.call.arg[2]))
              => LiesLeft(lane.self, lane.call.arg[1], lane.call.ret)

\* the fields of a lane that are arguments of its constructor, start and end
\* left aside
Given(self) ==
    [width |-> self.width, line_types |-> self.line_types, forbidden |-> self.forbidden,
     priority |-> self.priority, speed_limit |-> self.speed_limit]

Queries == {"position", "heading_at", "width_at", "local_coordinates"}

-----------------------------------------------------------------------------
(* Properties of initialize_asset_loader *)

\* C30: a call of initialize_asset_loader made while AssetLoader.initialized()
\* is true leaves loader and asset_path as they were, whatever engine it is
\* given.
C30_InitializeOnce ==
    [][(asset'.call.op = "initialize_asset_loader" /\ initialized(asset.AssetLoader))
          => asset'.AssetLoader = asset.AssetLoader]_vars

\* initialize_asset_loader has been given an engine with a window after
\* AssetLoader was initialized on an engine without one: there is still no
\* loader
C30_Witness ==
    /\ asset.call.op = "initialize_asset_loader"
    /\ asset.engine # None
    /\ Get(asset.engine).win # None
    /\ initialized(asset.AssetLoader)
    /\ asset.AssetLoader.loader = None

-----------------------------------------------------------------------------
(* Properties of done_function and reward_function of PGDriveEnv *)

\* the vehicle is out of road for PGDriveEnv: on a continuous line, off its
\* lane or on the sidewalk, or off its route when that ends the episode
OutOfRoad(config, vehicle) ==
    \/ vehicle.on_yellow_continuous_line
    \/ vehicle.on_white_continuous_line
    \/ ~vehicle.on_lane
    \/ vehicle.crash_sidewalk
    \/ (config.out_of_route_done /\ vehicle.out_of_route)

\* C31: done_function of PGDriveEnv returns done = True exactly when the
\* vehicle has arrived, is out of road or has crashed into a vehicle, an
\* object or a building; each flag of done_info is true exactly when its
\* condition holds, and crash is the disjunction of the three crash flags.
C31_DoneExact ==
    (veh.cls = "PGDriveEnv" /\ veh.done # None) =>
        LET v == veh.vehicle
            d == Get(veh.done)
            out == OutOfRoad(veh.config, v)
        IN  /\ d.done <=> (\/ v.arrive_destination \/ out
                           \/ v.crash_vehicle \/ v.crash_object \/ v.crash_building)
            /\ d.done_info.arrive_dest <=> v.arrive_destination
            /\ d.done_info.out_of_road <=> out
            /\ d.done_info.crash_vehicle <=> v.crash_vehicle
            /\ d.done_info.crash_object <=> v.crash_object
            /\ d.done_info.crash_building <=> v.crash_building
            /\ d.done_info.crash <=> (\/ d.done_info.crash_vehicle
                                      \/ d.done_info.crash_object
                                      \/ d.done_info.crash_building)

\* done for a vehicle on its lane whose only fault is a crash into a building
C31_Witness ==
    /\ veh.cls = "PGDriveEnv" /\ veh.done # None
    /\ veh.vehicle = Toggle(Driving, "crash_building")
    /\ Get(veh.done).done /\ Get(veh.done).done_info.crash
    /\ ~Get(veh.done).done_info.crash_vehicle /\ ~Get(veh.done).done_info.out_of_road

\* C32: reward_function of PGDriveEnv returns +success_reward for a vehicle
\* that has arrived, whatever else holds of it; failing that the out-of-road
\* penalty for a vehicle out of road, failing that the penalty of a crash into
\* a vehicle, failing that the penalty of a crash into an object, and the
\* reward of driving otherwise; step_info["step_reward"] is the reward of
\* driving in every case.
C32_RewardPriority ==
    (veh.cls = "PGDriveEnv" /\ veh.reward # None) =>
        LET v == veh.vehicle
            r == Get(veh.reward)
        IN  /\ r.reward = CASE v.arrive_destination -> "+success_reward"
                            [] ~v.arrive_destination /\ OutOfRoad(veh.config, v)
                                  -> "-out_of_road_penalty"
                            [] ~v.arrive_destination /\ ~OutOfRoad(veh.config, v)
                                  /\ v.crash_vehicle -> "-crash_vehicle_penalty"
                            [] ~v.arrive_destination /\ ~OutOfRoad(veh.config, v)
                                  /\ ~v.crash_vehicle /\ v.crash_object
                                  -> "-crash_object_penalty"
                            [] OTHER -> "step_reward"
            /\ r.step_info.step_reward = "step_reward"

\* the reward of a vehicle that has arrived off its lane after a crash
C32_Witness ==
    /\ veh.cls = "PGDriveEnv" /\ veh.reward # None
    /\ veh.vehicle.arrive_destination
    /\ ~veh.vehicle.on_lane /\ veh.vehicle.crash_vehicle /\ veh.vehicle.crash_object
    /\ Get(veh.reward).reward = "+success_reward"
    /\ Get(veh.reward).step_info.step_reward = "step_reward"

\* C33: after any sequence of reset, get_parking_space and after_vehicle_done
\* calls no parking space is the recorded destination of two vehicles, and no
\* recorded destination is in parking_space_available.
C33_DestinationsExclusive ==
    LET self == park.spawn_manager IN
    /\ \A v \in DOMAIN self.v_dest_pair, w \in DOMAIN self.v_dest_pair :
          self.v_dest_pair[v] = self.v_dest_pair[w] => v = w
    /\ \A v \in DOMAIN self.v_dest_pair :
          self.v_dest_pair[v] \notin self.parking_space_available

\* get_parking_space has given a vehicle a destination while another vehicle
\* holds one
C33_Witness ==
    /\ park.call.op = "get_parking_space"
    /\ park.call.err = ""
    /\ \E w \in DOMAIN park.spawn_manager.v_dest_pair : w # park.call.v

\* C34: after any sequence of reset, get_parking_space and after_vehicle_done
\* calls, also with get_parking_space called again for a vehicle that holds a
\* destination, parking_space_available together with the recorded
\* destinations is the set of all parking spaces of the map (once the manager
\* has read them from the map).
C34_Conservation ==
    (/\ park.call.op \in {"reset", "get_parking_space", "after_vehicle_done"}
     /\ park.spawn_manager._parking_spaces # None)
        => park.spawn_manager.parking_space_available
              \cup Values(park.spawn_manager.v_dest_pair)
           = park.spawn_manager.current_map.parking_space

\* the same, as long as get_parking_space is called for vehicles without a
\* destination only and the spaces have been filled by reset or by
\* get_parking_space
C34_ConservationFreshIds ==
    [][(/\ park.spawn_manager._parking_spaces # None
        /\ park.spawn_manager.parking_space_available
              \cup Values(park.spawn_manager.v_dest_pair)
           = park.spawn_manager.current_map.parking_space
        /\ park'.call.op = "get_parking_space"
              => park'.call.v \notin DOMAIN park.spawn_manager.v_dest_pair)
       => park'.spawn_manager.parking_space_available
             \cup Values(park'.spawn_manager.v_dest_pair)
          = park'.spawn_manager.current_map.parking_space]_vars

\* C35: _respawn_single_vehicle puts a vehicle on an entrance road only when
\* a parking space is available, and the get_parking_space call that
\* update_destination_for makes for it finds a space: it does not raise and
\* the vehicle gets the end node of a parking space as its destination.
C35_EntranceNeedsSpace ==
    [][(/\ park'.call.op = "_respawn_single_vehicle"
        /\ park'.call.place # None
        /\ Get(park'.call.place) \in in_spawn_roads)
       => /\ park.spawn_manager.parking_space_available # {}
          /\ park'.call.err = ""
          /\ park'.call.v \in DOMAIN park'.spawn_manager.v_dest_pair
          /\ park'.spawn_manager.v_dest_pair[park'.call.v]
                \in park.spawn_manager.parking_space_available
          /\ park'.call.destination_node
                = Some(park'.spawn_manager.v_dest_pair[park'.call.v].end_node)]_vars

\* a vehicle has been respawned on an entrance road and has taken the last
\* available parking space
C35_Witness ==
    /\ park.call.op = "_respawn_single_vehicle"
    /\ park.call.place # None
    /\ Get(park.call.place) \in in_spawn_roads
    /\ park.call.err = ""
    /\ park.spawn_manager.parking_space_available = {}

\* all parking spaces are taken and _respawn_single_vehicle, offered every
\* spawn place, keeps none and respawns no vehicle
C35_WitnessNoSpace ==
    /\ park.call.op = "_respawn_single_vehicle"
    /\ park.call.place = None
    /\ park.call.kept = {}
    /\ park.spawn_manager._parking_spaces # None
    /\ park.spawn_manager.parking_space_available = {}

\* generate() has been called with a method other than BLOCK_NUM and
\* BLOCK_SEQUENCE
OtherMethod ==
    big.entry = "generate" /\ big.method \notin {BLOCK_NUM, BLOCK_SEQUENCE}

\* C36: on a fresh engine generate() with a method that is neither BLOCK_NUM
\* nor BLOCK_SEQUENCE (SINGLE_BLOCK included) fails in its first call of
\* big_helper_func: it raises, never returns, no block is sampled,
\* constructed or destructed, and the stack holds the entry block only.
C36_OtherMethodFails ==
    /\ [](OtherMethod =>
            /\ big.blocks = <<FirstPGBlock>>
            /\ big.calls = <<>>
            /\ big.np_random.draws = 0
            /\ big.next_step = NextStep_forward
            /\ big.block_num = None
            /\ big._block_sequence = None
            /\ big.pc \in {"loop", "raised"}
            /\ big.pc = "raised" => big.err = "TypeError")
    /\ [][(OtherMethod /\ big.pc = "loop")
            => (big'.pc = "raised" /\ big'.err = "TypeError")]_vars

\* generate(SINGLE_BLOCK, 1) has raised
C36_Witness ==
    /\ OtherMethod
    /\ big.method = SINGLE_BLOCK
    /\ big.parameter.type = "int"
    /\ big.pc = "raised"
    /\ big.err = "TypeError"
====
